---- MODULE Spec2Model ----
(***************************************************************************)
(* The task scheduler of vectorlink: the etcd store (task records, queue   *)
(* entries, lease-backed claims, interrupts), the worker runtime           *)
(* (Queue::next_task, the Task operations, TaskHandler::process_queue),    *)
(* the monitor (scan, task-update watcher, orphan watcher) and the         *)
(* operator tools (interrupt, resume).                                     *)
(*                                                                         *)
(* etcd is the environment.  Its semantics used here: a transaction is     *)
(* atomic; the version of a key counts its puts since creation and is 0    *)
(* for an absent key; a put that names a lease which no longer exists is   *)
(* rejected and fails the whole transaction; revoking or expiring a lease  *)
(* deletes the keys attached to it; a watch delivers the events of its     *)
(* prefix in revision order.                                               *)
(*                                                                         *)
(* Two representations keep the state space finite without changing what   *)
(* the store can do.                                                       *)
(*  - A lease is named by the worker it was granted to.  A worker holds    *)
(*    one Task at a time and starts the next one only after revoking the   *)
(*    lease of the last, so it never has two leases that exist.            *)
(*  - A version is compared only with the version a reader saw, and the    *)
(*    two are equal exactly when the key was not put since.  A reader's    *)
(*    KeyValue is therefore kept while a transaction guarded on its        *)
(*    version can still succeed, and is dropped by the put that makes the  *)
(*    guard fail for good (Purge, opSnap.current).                         *)
(***************************************************************************)
EXTENDS Integers, Sequences, FiniteSets, TLC

\* ------------------------------------------------------------------ bounds
Workers == {"w1", "w2"}
TasksInOrder == <<"a">>
Tasks == {TasksInOrder[i] : i \in 1..Len(TasksInOrder)}
\* the progress values the user code stores (opaque JSON); "none" is an absent slot
Progress == {"p1"}
\* the resume tool is run at most MaxResumes times
MaxResumes == 1

\* the init slot a client gives a task (opaque JSON)
InitValue == "i0"

NoClaim == "none"
\* no LivenessGuard
NoGuard == [canary |-> FALSE, expecting_liveness |-> FALSE, renewer |-> "none"]
\* no call of the handle has returned
NoCall == [op |-> "none", result |-> "none", renewed |-> FALSE, seen |-> "none"]
NoTask == "none"

\* ------------------------------------------------------------------ state
VARIABLES
  rec,          \* tasks/<id>: the stored TaskData
  queue,        \* queue/<id> keys, in order of creation revision
  claim,        \* claims/<id>: the worker whose lease the key is attached to
  interrupt,    \* interrupt/<id>: "none", "canceled" or "paused"
  leases,       \* the workers whose lease exists in etcd
  mpc,          \* monitor: "start" before its scan, "run" after
  scanQ,        \* monitor: records of the startup scan not yet handled
  taskEvents,   \* monitor: undelivered PUT events of the tasks prefix
  claimEvents,  \* monitor: undelivered DELETE events of the claims prefix
  pc,           \* worker: position in process_queue
  wid,          \* worker: task id of its Task
  wstate,       \* worker: Task.state of the runtime's Task
  lstate,       \* worker: Task.state of the TaskLiveness clone
  todo,         \* worker: queue entries of next_task not yet attempted
  ures,         \* worker: outcome of the spawned user function
  oppc,         \* resume tool: "idle" or "read"
  opSnap,       \* resume tool: the record it read
  nResumes      \* resume tool: runs so far

\* The liveness handle of the user's code, with the time its keep-alives depend on.
VARIABLES
  hpc,                 \* user code: "run", or inside a call of its handle
  last_call,           \* user code: the last call of the handle that returned
  guard,               \* the LivenessGuard of the user code and its renewer
  ttl,                 \* etcd: seconds left of the lease of a worker
  last_renew_elapsed   \* Task.last_renew.elapsed(), in seconds, of the handle

storeVars == <<rec, queue, claim, interrupt, leases>>
monVars == <<mpc, scanQ, taskEvents, claimEvents>>
workerVars == <<pc, wid, wstate, lstate, todo, ures>>
opVars == <<oppc, opSnap, nResumes>>
mainVars == <<storeVars, monVars, workerVars, opVars>>
liveVars == <<hpc, last_call, guard, ttl, last_renew_elapsed>>

\* The store with its documents and versions, as the monitor, the resume tool and
\* the serialization of TaskData see it (parents, waiting lists, records that do
\* not parse).
VARIABLES
  tasksKV,      \* tasks/<id>: [value, version]; version 0: the key is absent
  queueKV,      \* the ids whose queue/<id> exists
  claimsKV,     \* the ids whose claims/<id> exists
  interruptKV,  \* the ids whose interrupt/<id> exists
  monitor,      \* the monitor process: main, its two watchers, what they were sent
  worker,       \* per task id: the worker that took its queue entry
  tool,         \* the resume tool: its position, the KeyValue it read, its result
  budget        \* how often a lease may still expire and the tool may still run

\* A PriorityQueueRing over two arrays, and the last call made on it.
VARIABLES
  pq,           \* the PriorityQueueRing: head, length, data, priorities
  pq_before,    \* the contents of the two arrays when the call was made
  pq_call       \* the call: its name, its arguments and what it returned

\* The queue of one service in etcd with its revisions, and one worker inside
\* Queue::next_task.
VARIABLES
  qstore,       \* revision, queue/<id> create revisions, claims/<id>, the PUT events
  nt            \* the worker: its position in next_task, its watch, its scan

\* The revisions of the task and claim keys in etcd, and the monitor's main with
\* its startup scan and its two watchers.
VARIABLES
  history,      \* the write of every revision after the first, in order
  mscan         \* the monitor: its position, the scan's revision, what it handled

\* The time since a handle's alive last sent a keep-alive; a prefix with its
\* range end; a worker connected under a service name with the store's keys.
VARIABLES
  since_sent,   \* per worker: whether and how long ago alive sent a keep-alive
  keyq,         \* a prefix, what key_after_prefix returned for it, and a key
  svc           \* the connected Queue, the queue entries, what it scanned and wrote

depVars == <<tasksKV, queueKV, claimsKV, interruptKV, monitor, worker, tool, budget>>
ringVars == <<pq, pq_before, pq_call>>
queueVars == <<qstore, nt>>
scanVars == <<history, mscan>>
pulseVars == <<since_sent>>
keyVars == <<keyq, svc>>
etcdVars == <<queueVars, scanVars, pulseVars, keyVars>>
sideVars == <<depVars, ringVars, etcdVars>>
vars == <<mainVars, liveVars, sideVars>>

\* ------------------------------------------------------------- task record
TaskStatus == {"Pending", "Resuming", "Running", "Waiting", "Paused",
               "Complete", "Error", "Canceled"}

is_final(s) == s \in {"Complete", "Error", "Canceled"}

\* TaskData: the status and the payload slots of other_fields
TaskData(s, i, p, r, e) ==
  [status |-> s, init |-> i, progress |-> p, result |-> r, error |-> e]

AbsentData == TaskData("Absent", "none", "none", "none", "none")

\* the KeyValue of a task record, as a watcher or a scan is handed it
KeyValue(id) == [id |-> id, status |-> rec[id].status]

InQueue(id) == \E i \in 1..Len(queue) : queue[i] = id

RemoveFromQueue(id) == SelectSeq(queue, LAMBDA x : x # id)

\* ------------------------------------------------------------ etcd effects
\* The monitor handles a Pending or Resuming record without a version guard
\* (enqueue_task), a Running or Waiting one under  version = kv.version.
VersionGuarded(kv) == kv.status \in {"Running", "Waiting"}

\* Monitor transactions that compare no version of tasks/<id>: every KeyValue
\* the monitor holds stays applicable.
Purge_no_version_compare(evs, id) == evs

\* A put of tasks/<id> raises the version: the version-guarded KeyValues of id
\* that the monitor still holds can no longer be applied.
Purge(evs, id) == SelectSeq(evs, LAMBDA kv : ~(kv.id = id /\ VersionGuarded(kv)))

\* A task-update watcher that is sent no PUT event.
Deliver_nothing(evs, kv) == evs

\* A KeyValue whose handling does nothing (a final status of a record that names
\* no parent) is not kept.
Deliver(evs, kv) ==
  IF mpc = "run" /\ ~is_final(kv.status) THEN Append(evs, kv) ELSE evs

\* A put of tasks/<id> by a transaction, the monitor holding the KeyValues sq, te
\* and ce: the task-update watcher is sent the new KeyValue.
PutTaskOn(id, data, sq, te, ce) ==
  /\ rec' = [rec EXCEPT ![id] = data]
  /\ scanQ' = Purge(sq, id)
  /\ taskEvents' = Deliver(Purge(te, id), [id |-> id, status |-> data.status])
  /\ claimEvents' = Purge(ce, id)

PutTask(id, data) == PutTaskOn(id, data, scanQ, taskEvents, claimEvents)

\* The resume tool's read of id is out of date after a put of tasks/<id>.
Outdate(id) ==
  opSnap' = IF opSnap.id = id THEN [opSnap EXCEPT !.current = FALSE] ELSE opSnap

\* The lease of worker l ends (expiry or revoke): the claims attached to it are
\* deleted, and the orphan watcher is sent each deletion with the task record at
\* that revision.
OrphanEventsOf(l) ==
  LET ids == SelectSeq(TasksInOrder,
                       LAMBDA id : claim[id] = l /\ ~is_final(rec[id].status))
  IN  [i \in 1..Len(ids) |-> KeyValue(ids[i])]

\* The end of a lease with no orphan watcher to be sent the deletions.
DropLease_unwatched(l) ==
  /\ leases' = leases \ {l}
  /\ claim' = [id \in Tasks |-> IF claim[id] = l THEN NoClaim ELSE claim[id]]
  /\ claimEvents' = claimEvents

DropLease(l) ==
  /\ leases' = leases \ {l}
  /\ claim' = [id \in Tasks |-> IF claim[id] = l THEN NoClaim ELSE claim[id]]
  /\ claimEvents' = IF mpc = "run" THEN claimEvents \o OrphanEventsOf(l) ELSE claimEvents

\* ------------------------------------------- documents, versions, the ring
\* the task ids of the store with documents: a parent and its two dependencies
DepTasks == {"p", "c1", "c2"}
\* a lease expires at most MaxExpiries times, the resume tool runs at most
\* MaxToolRuns times
MaxExpiries == 1
MaxToolRuns == 2

\* the KeyValue of a key that does not exist
AbsentKV == [value |-> [kind |-> "absent"], version |-> 0]

\* a watcher or the scan between two records
IdleHandler == [pc |-> "idle"]

\* the operators that run the resume tool
Operators == {"o1", "o2"}

\* alive has sent no keep-alive on the handle
NeverSent == [sent |-> FALSE, ago |-> 0]

\* no prefix chosen
IdleKey == [pc |-> "none", prefix |-> <<>>, end_key |-> <<>>, key |-> <<>>]

\* no Queue connected, no queue entry
IdleService ==
  [pc |-> "none", service_name |-> <<>>, queue |-> {}, kvs |-> {}, claims |-> {},
   tasks |-> {}, interrupts |-> {}]

\* the monitor before process_existing_tasks
IdleScan ==
  [pc |-> "start", revision |-> 0, start_key |-> <<>>, kvs |-> <<>>, len |-> 0, last |-> 0,
   handled |-> <<>>, task_next |-> 0, orphan_next |-> 0,
   task_events |-> <<>>, orphan_events |-> <<>>]

\* the keys queue/<id> of the next_task model, named in key order
QueueIds == {"k1", "k2", "k3"}

\* no queue entry, no claim, no event
EmptyQueueStore ==
  [revision |-> 1, queue |-> [id \in QueueIds |-> 0],
   claims |-> [id \in QueueIds |-> "none"], log |-> <<>>]

\* the worker before its first call of next_task
IdleNextTask ==
  [pc |-> "idle", pos |-> 0, kvs |-> <<>>, seen |-> [id \in QueueIds |-> 0],
   attempts |-> <<>>, scanned |-> 0, result |-> "none", quiet |-> TRUE]

\* The store is empty, the monitor, the workers and the resume tool have not
\* started, and no PriorityQueueRing has been built.
SideInit ==
  /\ tasksKV = [id \in DepTasks |-> AbsentKV]
  /\ queueKV = {}
  /\ claimsKV = {}
  /\ interruptKV = {}
  /\ monitor = [phase |-> "start", scan |-> <<>>, events |-> <<>>, orphans |-> <<>>,
                task_handler |-> IdleHandler, orphan_handler |-> IdleHandler]
  /\ worker = [id \in DepTasks |-> [pc |-> "none"]]
  /\ tool = [o \in Operators |-> [pc |-> "idle", result |-> "none"]]
  /\ budget = [expiries |-> MaxExpiries, resumes |-> MaxToolRuns]
  /\ pq = [head |-> 0, length |-> 0, data |-> <<>>, priorities |-> <<>>]
  /\ pq_before = [data |-> <<>>, priorities |-> <<>>]
  /\ pq_call = [op |-> "none"]
  /\ qstore = EmptyQueueStore
  /\ nt = IdleNextTask
  /\ history = <<>>
  /\ mscan = IdleScan
  /\ since_sent = [w \in Workers |-> NeverSent]
  /\ keyq = IdleKey
  /\ svc = IdleService

\* ------------------------------------------------------------------- Init
Init ==
  /\ rec = [id \in Tasks |-> AbsentData]
  /\ queue = <<>>
  /\ claim = [id \in Tasks |-> NoClaim]
  /\ interrupt = [id \in Tasks |-> "none"]
  /\ leases = {}
  /\ mpc = "start"
  /\ scanQ = <<>>
  /\ taskEvents = <<>>
  /\ claimEvents = <<>>
  /\ pc = [w \in Workers |-> "next"]
  /\ wid = [w \in Workers |-> NoTask]
  /\ wstate = [w \in Workers |-> AbsentData]
  /\ lstate = [w \in Workers |-> AbsentData]
  /\ todo = [w \in Workers |-> <<>>]
  /\ ures = [w \in Workers |-> "none"]
  /\ oppc = "idle"
  /\ opSnap = [id |-> NoTask, current |-> FALSE]
  /\ nResumes = 0
  /\ hpc = [w \in Workers |-> "run"]
  /\ last_call = [w \in Workers |-> NoCall]
  /\ guard = [w \in Workers |-> NoGuard]
  /\ ttl = [w \in Workers |-> 0]
  /\ last_renew_elapsed = [w \in Workers |-> 0]
  /\ SideInit

\* ---------------------------------------------------------------- clients
\* A client creates tasks/<id> with status Pending and its init slot.
CreateTask(id) ==
  /\ rec[id].status = "Absent"
  /\ PutTask(id, TaskData("Pending", InitValue, "none", "none", "none"))
  /\ UNCHANGED <<queue, claim, interrupt, leases, mpc, workerVars, opVars>>
  /\ UNCHANGED liveVars
  /\ UNCHANGED sideVars

\* The TTL of a lease runs out without a renewal.
LeaseExpire(l) ==
  /\ l \in leases
  /\ DropLease(l)
  /\ UNCHANGED <<rec, queue, interrupt, mpc, scanQ, taskEvents, workerVars, opVars>>
  /\ UNCHANGED liveVars
  /\ UNCHANGED sideVars

\* ---------------------------------------------------------------- monitor
\* A worker in the watch loop of next_task is sent the PUT of a queue entry; a
\* second PUT of the entry it is about to attempt adds no attempt that differs.
Watch(seq, id) ==
  IF seq # <<>> /\ seq[Len(seq)] = id THEN seq ELSE Append(seq, id)

\* enqueue_task whose transaction compares only the version of the queue key.
enqueue_task_no_claim_compare(id) ==
  IF ~InQueue(id)
  THEN /\ queue' = Append(queue, id)
       /\ todo' = [w \in Workers |->
                     IF pc[w] = "claiming" THEN Watch(todo[w], id) ELSE todo[w]]
  ELSE UNCHANGED <<queue, todo>>

\* The transaction of enqueue_task without the compare of the queue key's version.
enqueue_txn_no_queue_compare(q, c, id) ==
  IF c[id] = NoClaim THEN Append(q, id) ELSE q

\* The transaction of enqueue_task on the queue q under the claims c: when the
\* versions of claims/<id> and queue/<id> are 0, put queue/<id> with the empty
\* value; it has no other operation and no else branch.
enqueue_txn(q, c, id) ==
  IF c[id] = NoClaim /\ ~(\E i \in 1..Len(q) : q[i] = id)
  THEN Append(q, id)
  ELSE q

\* enqueue_task: put queue/<id> if neither a claim nor a queue entry exists; the
\* workers watching the queue prefix are sent the put.
enqueue_task(id) ==
  /\ queue' = enqueue_txn(queue, claim, id)
  /\ todo' = IF enqueue_txn(queue, claim, id) # queue
             THEN [w \in Workers |->
                     IF pc[w] = "claiming" THEN Watch(todo[w], id) ELSE todo[w]]
             ELSE todo

\* resume_unclaimed whose transaction does not compare the version of the claim.
resume_unclaimed_no_claim_compare(kv, sq, te, ce) ==
  /\ PutTaskOn(kv.id, [rec[kv.id] EXCEPT !.status = "Resuming"], sq, te, ce)
  /\ interrupt' = [interrupt EXCEPT ![kv.id] = "none"]
  /\ Outdate(kv.id)

\* resume_unclaimed whose transaction leaves the interrupt key in place.
resume_unclaimed_keep_interrupt(kv, sq, te, ce) ==
  IF claim[kv.id] = NoClaim
  THEN /\ PutTaskOn(kv.id, [rec[kv.id] EXCEPT !.status = "Resuming"], sq, te, ce)
       /\ Outdate(kv.id)
       /\ UNCHANGED interrupt
  ELSE /\ rec' = rec
       /\ scanQ' = sq
       /\ taskEvents' = te
       /\ claimEvents' = ce
       /\ UNCHANGED <<interrupt, opSnap>>

\* resume_unclaimed: rewrite the record as Resuming and delete the interrupt, if
\* the record is at the version that was read (it is: see Purge) and no claim
\* exists.
resume_unclaimed(kv, sq, te, ce) ==
  IF claim[kv.id] = NoClaim
  THEN /\ PutTaskOn(kv.id, [rec[kv.id] EXCEPT !.status = "Resuming"], sq, te, ce)
       /\ interrupt' = [interrupt EXCEPT ![kv.id] = "none"]
       /\ Outdate(kv.id)
  ELSE /\ rec' = rec
       /\ scanQ' = sq
       /\ taskEvents' = te
       /\ claimEvents' = ce
       /\ UNCHANGED <<interrupt, opSnap>>

\* wake_up_waiting_task: rewrite the record as Resuming if it is at the version
\* that was read.
wake_up_waiting_task(kv, sq, te, ce) ==
  /\ PutTaskOn(kv.id, [rec[kv.id] EXCEPT !.status = "Resuming"], sq, te, ce)
  /\ Outdate(kv.id)

\* try_enqueue_task: the monitor's dispatch on the status of a record it was handed.
\* The records of this model name no parent and no waiting list: wake_up_parent
\* does nothing, try_resume_waiting wakes at once.
try_enqueue_task(kv, sq, te, ce) ==
  CASE kv.status \in {"Pending", "Resuming"} ->
         /\ enqueue_task(kv.id)
         /\ rec' = rec
         /\ scanQ' = sq
         /\ taskEvents' = te
         /\ claimEvents' = ce
         /\ UNCHANGED <<interrupt, opSnap>>
    [] kv.status = "Running" ->
         /\ resume_unclaimed(kv, sq, te, ce)
         /\ UNCHANGED <<queue, todo>>
    [] kv.status = "Waiting" ->
         /\ wake_up_waiting_task(kv, sq, te, ce)
         /\ UNCHANGED <<queue, todo, interrupt>>
    [] OTHER ->
         /\ rec' = rec
         /\ scanQ' = sq
         /\ taskEvents' = te
         /\ claimEvents' = ce
         /\ UNCHANGED <<queue, todo, interrupt, opSnap>>

\* process_existing_tasks reads every record at one revision; the watches start
\* at that revision plus one.
MonitorScan ==
  /\ mpc = "start"
  /\ mpc' = "run"
  /\ LET ids == SelectSeq(TasksInOrder,
                          LAMBDA id : rec[id].status # "Absent" /\ ~is_final(rec[id].status))
     IN  scanQ' = [i \in 1..Len(ids) |-> KeyValue(ids[i])]
  /\ UNCHANGED <<storeVars, taskEvents, claimEvents, workerVars, opVars>>
  /\ UNCHANGED liveVars
  /\ UNCHANGED sideVars

\* process_existing_tasks: try_enqueue_task on the next record of the scan.
MonitorScanItem ==
  /\ scanQ # <<>>
  /\ try_enqueue_task(Head(scanQ), Tail(scanQ), taskEvents, claimEvents)
  /\ UNCHANGED <<claim, leases, mpc, pc, wid, wstate, lstate, ures, oppc, nResumes>>
  /\ UNCHANGED liveVars
  /\ UNCHANGED sideVars

\* process_task_updates: one PUT event of the tasks prefix.
MonitorTaskEvent ==
  /\ mpc = "run"
  /\ scanQ = <<>>
  /\ taskEvents # <<>>
  /\ try_enqueue_task(Head(taskEvents), scanQ, Tail(taskEvents), claimEvents)
  /\ UNCHANGED <<claim, leases, mpc, pc, wid, wstate, lstate, ures, oppc, nResumes>>
  /\ UNCHANGED liveVars
  /\ UNCHANGED sideVars

\* process_new_orphans: one DELETE event of the claims prefix, with the task record
\* read at the revision of the response.
MonitorOrphanEvent ==
  /\ mpc = "run"
  /\ scanQ = <<>>
  /\ claimEvents # <<>>
  /\ try_enqueue_task(Head(claimEvents), scanQ, taskEvents, Tail(claimEvents))
  /\ UNCHANGED <<claim, leases, mpc, pc, wid, wstate, lstate, ures, oppc, nResumes>>
  /\ UNCHANGED liveVars
  /\ UNCHANGED sideVars

\* ----------------------------------------------------------------- worker
\* Queue::next_task: install the watch, range-scan the queue prefix by creation
\* revision.
NextTaskScan(w) ==
  /\ pc[w] = "next"
  /\ pc' = [pc EXCEPT ![w] = "claiming"]
  /\ todo' = [todo EXCEPT ![w] = queue]
  /\ UNCHANGED <<storeVars, monVars, wid, wstate, lstate, ures, opVars>>
  /\ UNCHANGED liveVars
  /\ UNCHANGED sideVars

\* Queue::claim_task on the next entry of the scan or the watch: grant a lease, then
\* the transaction  if version(claim) = 0 then delete queue, put claim with the
\* lease; else delete queue.
claim_task(w, id) ==
  IF claim[id] = NoClaim
  THEN /\ leases' = leases \cup {w}
       /\ claim' = [claim EXCEPT ![id] = w]
       /\ queue' = RemoveFromQueue(id)
       /\ pc' = [pc EXCEPT ![w] = "claimed"]
       /\ wid' = [wid EXCEPT ![w] = id]
       /\ todo' = [todo EXCEPT ![w] = <<>>]
  ELSE /\ queue' = RemoveFromQueue(id)
       /\ todo' = [todo EXCEPT ![w] = Tail(todo[w])]
       /\ UNCHANGED <<leases, claim, pc, wid>>

ClaimTask(w) ==
  /\ pc[w] = "claiming"
  /\ todo[w] # <<>>
  /\ claim_task(w, Head(todo[w]))
  /\ UNCHANGED <<rec, interrupt, monVars, wstate, lstate, ures, opVars>>
  /\ UNCHANGED liveVars
  /\ UNCHANGED sideVars

\* What leaves the scope of process_queue when it ends by an error or a panic.
Dead(w, how) ==
  /\ pc' = [pc EXCEPT ![w] = how]
  /\ wid' = [wid EXCEPT ![w] = NoTask]
  /\ wstate' = [wstate EXCEPT ![w] = AbsentData]
  /\ lstate' = [lstate EXCEPT ![w] = AbsentData]
  /\ ures' = [ures EXCEPT ![w] = "none"]

\* Task::new: read the record of the claimed task.
TaskNew(w) ==
  /\ pc[w] = "claimed"
  /\ IF rec[wid[w]].status = "Absent"
     THEN Dead(w, "panicked")
     ELSE /\ pc' = [pc EXCEPT ![w] = "loaded"]
          /\ wstate' = [wstate EXCEPT ![w] = rec[wid[w]]]
          /\ UNCHANGED <<wid, lstate, ures>>
  /\ UNCHANGED <<storeVars, monVars, todo, opVars>>
  /\ UNCHANGED liveVars
  /\ UNCHANGED sideVars

\* Task::alive with a send_keep_alive that takes any answer of etcd for a
\* confirmation, a ttl of 0 too.
alive_ttl_unchecked(w, thr) ==
  IF thr THEN "ok"
  ELSE IF interrupt[wid[w]] # "none" THEN "panic"
  ELSE "ok"

\* Task::alive.  thr: the call falls within RENEW_DURATION of the last renewal and
\* does nothing.  Otherwise send_keep_alive fails on a lost lease, and a present
\* interrupt key is matched on first.key(), which is the key and never the
\* reason: the call panics.
alive(w, thr) ==
  IF thr THEN "ok"
  ELSE IF w \notin leases THEN "expired"
  ELSE IF interrupt[wid[w]] # "none" THEN "panic"
  ELSE "ok"

\* A store that accepts a put naming a lease that no longer exists.
LeaseExists_unchecked(w) == TRUE

\* Whether etcd accepts the transaction of update_state_noalive: its put of the
\* claim names the lease, which must exist.
LeaseExists(w) == w \in leases

\* Task::update_state: alive, then update_state_noalive.
update_state(w, thr) ==
  IF alive(w, thr) # "ok" THEN alive(w, thr)
  ELSE IF ~LeaseExists(w) THEN "expired"
  ELSE "ok"

\* Task::update_state_noalive: put claims/<id> with the lease and put tasks/<id>.
update_state_noalive(w, data) ==
  /\ claim' = [claim EXCEPT ![wid[w]] = w]
  /\ PutTask(wid[w], data)
  /\ Outdate(wid[w])

NoWrite == UNCHANGED <<rec, scanQ, taskEvents, claimEvents, claim, opSnap>>

\* process_queue goes on after a Task operation of the runtime returned ok; it ends
\* on an error (the lease is lost) and on a panic.
Go(w, outcome, okpc, data) ==
  IF outcome = "ok"
  THEN /\ pc' = [pc EXCEPT ![w] = okpc]
       /\ wstate' = [wstate EXCEPT ![w] = data]
       /\ UNCHANGED wid
  ELSE /\ pc' = [pc EXCEPT ![w] = IF outcome = "expired" THEN "exited" ELSE "panicked"]
       /\ wid' = [wid EXCEPT ![w] = NoTask]
       /\ wstate' = [wstate EXCEPT ![w] = AbsentData]

\* process_queue whose Task keeps the state it was loaded with when start or
\* resume has written Running
StartOrResume_stale_handle(w, thr) ==
  /\ pc[w] = "loaded"
  /\ IF wstate[w].status \notin {"Pending", "Resuming"}
     THEN /\ Dead(w, "panicked")
          /\ NoWrite
     ELSE LET data == [wstate[w] EXCEPT !.status = "Running"]
              out == update_state(w, thr)
              okpc == IF wstate[w].status = "Pending" THEN "init" ELSE "process"
          IN  /\ Go(w, out, okpc, wstate[w])
              /\ IF out = "ok" THEN update_state_noalive(w, data) ELSE NoWrite
              /\ lstate' = [lstate EXCEPT ![w] = IF out = "ok" THEN data ELSE AbsentData]
              /\ UNCHANGED ures
  /\ UNCHANGED <<queue, interrupt, leases, mpc, todo, oppc, nResumes>>
  /\ UNCHANGED liveVars
  /\ UNCHANGED sideVars

\* process_queue: dispatch on the status of the claimed task; Task::start or
\* Task::resume, then spawn initialize or process with a clone of the Task.
StartOrResume(w, thr) ==
  /\ pc[w] = "loaded"
  /\ IF wstate[w].status \notin {"Pending", "Resuming"}
     THEN /\ Dead(w, "panicked")
          /\ NoWrite
     ELSE LET data == [wstate[w] EXCEPT !.status = "Running"]
              out == update_state(w, thr)
              okpc == IF wstate[w].status = "Pending" THEN "init" ELSE "process"
          IN  /\ Go(w, out, okpc, data)
              /\ IF out = "ok" THEN update_state_noalive(w, data) ELSE NoWrite
              /\ lstate' = [lstate EXCEPT ![w] = IF out = "ok" THEN data ELSE AbsentData]
              /\ UNCHANGED ures
  /\ UNCHANGED <<queue, interrupt, leases, mpc, todo, oppc, nResumes>>
  /\ UNCHANGED liveVars
  /\ UNCHANGED sideVars

InUserCode(w) == pc[w] \in {"init", "process"}

DonePc(w) == IF pc[w] = "init" THEN "init_done" ELSE "proc_done"

\* TaskLiveness::set_progress called by initialize or process: Task::set_progress
\* on the clone.  A panic inside it ends the spawned function; an error is
\* returned to the user code.
UserSetProgress(w, thr, p) ==
  /\ InUserCode(w)
  /\ LET data == [lstate[w] EXCEPT !.progress = p]
         out == update_state(w, thr)
     IN  /\ lstate' = [lstate EXCEPT ![w] = data]
         /\ IF out = "ok" THEN update_state_noalive(w, data) ELSE NoWrite
         /\ IF out = "panic"
            THEN /\ pc' = [pc EXCEPT ![w] = DonePc(w)]
                 /\ ures' = [ures EXCEPT ![w] = "panic"]
            ELSE UNCHANGED <<pc, ures>>
  /\ UNCHANGED <<queue, interrupt, leases, mpc, wid, wstate, todo, oppc, nResumes>>
  /\ UNCHANGED liveVars
  /\ UNCHANGED sideVars

\* The user's initialize or process returns a value, returns an error or panics.
UserReturn(w, r) ==
  /\ InUserCode(w)
  /\ pc' = [pc EXCEPT ![w] = DonePc(w)]
  /\ ures' = [ures EXCEPT ![w] = r]
  /\ UNCHANGED <<storeVars, monVars, wid, wstate, lstate, todo, opVars>>
  /\ UNCHANGED liveVars
  /\ UNCHANGED sideVars

\* Task::finish / Task::finish_error up to the record write: set the result or
\* error slot, verify_status(Running), status Complete or Error, update_state.
FinishData(w) ==
  IF ures[w] = "ok"
  THEN [wstate[w] EXCEPT !.result = "ok", !.status = "Complete"]
  ELSE [wstate[w] EXCEPT !.error = ures[w], !.status = "Error"]

\* verify_status that accepts every status
verify_status_unchecked(w, expected) == TRUE

verify_status(w, expected) == wstate[w].status = expected

finish_write(w, thr) ==
  IF ~verify_status(w, "Running")
  THEN /\ Dead(w, "panicked")
       /\ NoWrite
  ELSE LET out == update_state(w, thr)
       IN  /\ Go(w, out, "release", FinishData(w))
           /\ IF out = "ok" THEN update_state_noalive(w, FinishData(w)) ELSE NoWrite
           /\ lstate' = [lstate EXCEPT ![w] = AbsentData]
           /\ ures' = [ures EXCEPT ![w] = "none"]

\* process_queue after initialize: store the progress p it returned and spawn
\* process, or finish_error and go on with the next task.
AfterInitialize(w, thr, p) ==
  /\ pc[w] = "init_done"
  /\ IF ures[w] = "ok"
     THEN LET data == [wstate[w] EXCEPT !.progress = p]
              out == update_state(w, thr)
          IN  /\ Go(w, out, "process", data)
              /\ IF out = "ok" THEN update_state_noalive(w, data) ELSE NoWrite
              /\ lstate' = [lstate EXCEPT ![w] = IF out = "ok" THEN data ELSE AbsentData]
              /\ ures' = [ures EXCEPT ![w] = "none"]
     ELSE finish_write(w, thr)
  /\ UNCHANGED <<queue, interrupt, leases, mpc, todo, oppc, nResumes>>
  /\ UNCHANGED liveVars
  /\ UNCHANGED sideVars

\* refresh_state that sends the keep-alive and leaves Task.state as it was.
RefreshState_no_read(w, thr) ==
  /\ pc[w] = "proc_done"
  /\ LET out == alive(w, thr)
     IN  /\ Go(w, out, "finishing", wstate[w])
         /\ lstate' = [lstate EXCEPT ![w] = AbsentData]
         /\ ures' = IF out = "ok" THEN ures ELSE [ures EXCEPT ![w] = "none"]
  /\ UNCHANGED <<storeVars, monVars, todo, opVars>>
  /\ UNCHANGED liveVars
  /\ UNCHANGED sideVars

\* Task::refresh_state after process: alive, then read the record.
RefreshState(w, thr) ==
  /\ pc[w] = "proc_done"
  /\ LET out == alive(w, thr)
     IN  /\ Go(w, out, "finishing", rec[wid[w]])
         /\ lstate' = [lstate EXCEPT ![w] = AbsentData]
         /\ ures' = IF out = "ok" THEN ures ELSE [ures EXCEPT ![w] = "none"]
  /\ UNCHANGED <<storeVars, monVars, todo, opVars>>
  /\ UNCHANGED liveVars
  /\ UNCHANGED sideVars

\* process_queue after process: Task::finish or Task::finish_error.
Finish(w, thr) ==
  /\ pc[w] = "finishing"
  /\ finish_write(w, thr)
  /\ UNCHANGED <<queue, interrupt, leases, mpc, todo, oppc, nResumes>>
  /\ UNCHANGED liveVars
  /\ UNCHANGED sideVars

\* Task::finish as queue.rs has it: no release_claim, the loop goes on to
\* next_task with the lease left to expire.
release_claim_no_revoke(w) ==
  /\ pc[w] = "release"
  /\ Dead(w, "next")
  /\ UNCHANGED <<leases, claim, claimEvents>>
  /\ UNCHANGED <<rec, queue, interrupt, mpc, scanQ, taskEvents, todo, opVars>>
  /\ UNCHANGED liveVars
  /\ UNCHANGED sideVars

\* Task::release_claim: revoke the lease, which deletes the claim; then the loop
\* of process_queue goes on to next_task.
release_claim(w) ==
  /\ pc[w] = "release"
  /\ IF w \in leases
     THEN /\ DropLease(w)
          /\ Dead(w, "next")
     ELSE /\ Dead(w, "exited")
          /\ UNCHANGED <<leases, claim, claimEvents>>
  /\ UNCHANGED <<rec, queue, interrupt, mpc, scanQ, taskEvents, todo, opVars>>
  /\ UNCHANGED liveVars
  /\ UNCHANGED sideVars

HoldsTask(w) ==
  pc[w] \in {"claimed", "loaded", "init", "init_done", "process", "proc_done",
             "finishing", "release"}

\* The worker process is killed while it handles a task.
Crash(w) ==
  /\ HoldsTask(w)
  /\ Dead(w, "crashed")
  /\ UNCHANGED <<storeVars, monVars, todo, opVars>>
  /\ UNCHANGED liveVars
  /\ UNCHANGED sideVars

\* --------------------------------------------------------------- operator
\* An operator writes interrupt/<id>.
WriteInterrupt(id, reason) ==
  /\ rec[id].status # "Absent"
  /\ interrupt[id] # reason
  /\ interrupt' = [interrupt EXCEPT ![id] = reason]
  /\ UNCHANGED <<rec, queue, claim, leases, monVars, workerVars, opVars>>
  /\ UNCHANGED liveVars
  /\ UNCHANGED sideVars

\* resume (task-util): read the record; go on only if its status is Error.
ResumeRead(id) ==
  /\ oppc = "idle"
  /\ nResumes < MaxResumes
  /\ rec[id].status = "Error"
  /\ oppc' = "read"
  /\ opSnap' = [id |-> id, current |-> TRUE]
  /\ nResumes' = nResumes + 1
  /\ UNCHANGED <<storeVars, monVars, workerVars>>
  /\ UNCHANGED liveVars
  /\ UNCHANGED sideVars

\* resume (task-util): put the record with status Resuming and no error field, if
\* its version is the one read.
ResumeTxn ==
  /\ oppc = "read"
  /\ oppc' = "idle"
  /\ IF opSnap.current
     THEN PutTask(opSnap.id,
                  [rec[opSnap.id] EXCEPT !.status = "Resuming", !.error = "none"])
     ELSE UNCHANGED <<rec, scanQ, taskEvents, claimEvents>>
  /\ opSnap' = [id |-> NoTask, current |-> FALSE]
  /\ UNCHANGED <<queue, claim, interrupt, leases, mpc, workerVars, nResumes>>
  /\ UNCHANGED liveVars
  /\ UNCHANGED sideVars

\* ------------------------------------------------------------------- Next
Next ==
  \/ \E id \in Tasks : CreateTask(id)
  \/ \E l \in Workers : LeaseExpire(l)
  \/ MonitorScan
  \/ MonitorScanItem
  \/ MonitorTaskEvent
  \/ MonitorOrphanEvent
  \/ \E w \in Workers : NextTaskScan(w)
  \/ \E w \in Workers : ClaimTask(w)
  \/ \E w \in Workers : TaskNew(w)
  \/ \E w \in Workers, thr \in BOOLEAN : StartOrResume(w, thr)
  \/ \E w \in Workers, thr \in BOOLEAN, p \in Progress : UserSetProgress(w, thr, p)
  \/ \E w \in Workers, r \in {"ok", "err", "panic"} : UserReturn(w, r)
  \/ \E w \in Workers, thr \in BOOLEAN, p \in Progress : AfterInitialize(w, thr, p)
  \/ \E w \in Workers, thr \in BOOLEAN : RefreshState(w, thr)
  \/ \E w \in Workers, thr \in BOOLEAN : Finish(w, thr)
  \/ \E w \in Workers : release_claim(w)
  \/ \E w \in Workers : Crash(w)
  \/ \E id \in Tasks, reason \in {"canceled", "paused"} : WriteInterrupt(id, reason)
  \/ \E id \in Tasks : ResumeRead(id)
  \/ ResumeTxn

Spec == Init /\ [][Next]_vars

\* ------------------------------------------------------------ properties
HasKeyValue(evs, id, statuses) ==
  \E i \in 1..Len(evs) : evs[i].id = id /\ evs[i].status \in statuses

\* The monitor has yet to handle a Pending or Resuming KeyValue of id, or has
\* yet to scan.
MonitorOwes(id) ==
  \/ mpc = "start"
  \/ HasKeyValue(scanQ, id, {"Pending", "Resuming"})
  \/ HasKeyValue(taskEvents, id, {"Pending", "Resuming"})
  \/ HasKeyValue(claimEvents, id, {"Pending", "Resuming"})

\* Worker w has a Task of id whose start or resume has returned and whose finish
\* has not been called.
Started(w, id) ==
  /\ wid[w] = id
  /\ pc[w] \in {"init", "init_done", "process", "proc_done", "finishing"}

\* C1 (I1): in every reachable state no task id has both its queue entry and its
\* claim.
C1_QueueAndClaimExclusive ==
  \A id \in Tasks : ~(InQueue(id) /\ claim[id] # NoClaim)

\* C1: the monitor holds a Pending or Resuming KeyValue of a task that is claimed:
\* its enqueue transaction will run against the claim.
C1_EnqueueMeetsClaim ==
  \E id \in Tasks :
    /\ claim[id] # NoClaim
    /\ HasKeyValue(taskEvents, id, {"Pending", "Resuming"})

\* C2: every claim transaction that succeeds takes a queue entry that exists, so
\* no queue entry gives ownership to two workers; and at every moment at most one
\* worker holds a Task of a given id under a lease that exists.
C2_OneOwnerPerQueueEntry ==
  /\ [](\A w1, w2 \in Workers :
          (w1 # w2 /\ HoldsTask(w1) /\ HoldsTask(w2) /\ wid[w1] = wid[w2])
            => ~(w1 \in leases /\ w2 \in leases))
  /\ [][\A w \in Workers, id \in Tasks :
          (claim'[id] = w /\ claim[id] # w) => InQueue(id)]_vars

\* C2: two workers hold the same queue entry in their scans of next_task.
C2_TwoWorkersSameEntry ==
  \E id \in Tasks : \A w \in Workers :
    pc[w] = "claiming" /\ todo[w] # <<>> /\ Head(todo[w]) = id

\* C3 (I5): once the record's status is Complete, Error or Canceled, the only step
\* that changes the status is the resume tool's transaction, Error to Resuming.
C3_TerminalSticky ==
  [][\A id \in Tasks :
       (is_final(rec[id].status) /\ rec'[id].status # rec[id].status)
         => /\ rec[id].status = "Error"
            /\ rec'[id].status = "Resuming"
            /\ oppc = "read" /\ oppc' = "idle" /\ opSnap.id = id]_vars

\* C3: a worker holds a Task it has just loaded for a record whose status is
\* final.
C3_WorkerAtTerminalRecord ==
  \E w \in Workers :
    pc[w] = "loaded" /\ is_final(rec[wid[w]].status) /\ w \in leases

\* C4 (I2) as stated: if the claim exists the record's status is Running, Waiting
\* or Paused.
C4_ClaimImpliesActive ==
  \A id \in Tasks :
    claim[id] # NoClaim => rec[id].status \in {"Running", "Waiting", "Paused"}

\* C4: if the claim exists and its holder's start or resume has returned and its
\* finish has not been called, the record's status is Running, Waiting or Paused.
C4_StartedClaimImpliesActive ==
  \A id \in Tasks :
    (claim[id] # NoClaim /\ Started(claim[id], id))
      => rec[id].status \in {"Running", "Waiting", "Paused"}

\* C4: a claim whose holder runs the user's process.
C4_ClaimHeldInProcess ==
  \E id \in Tasks : claim[id] # NoClaim /\ Started(claim[id], id) /\ pc[claim[id]] = "process"

WorkerWrites(id) ==
  rec'[id] # rec[id] /\ rec'[id].status \notin {"Pending", "Resuming"}

\* C6 (I4): a worker's put of tasks/<id> takes effect only in a step where the
\* claim of id is attached to that worker's lease, which exists, and the same step
\* leaves the claim with that worker; and a claim is created only by the claim
\* transaction of a worker in next_task, never by a former owner.
C6_WritesOnlyUnderLease ==
  [][\A id \in Tasks :
       /\ WorkerWrites(id)
            => /\ claim[id] # NoClaim
               /\ claim[id] \in leases
               /\ wid[claim[id]] = id
               /\ claim'[id] = claim[id]
       /\ (claim'[id] # claim[id] /\ claim'[id] # NoClaim)
            => /\ claim[id] = NoClaim
               /\ pc[claim'[id]] = "claiming"]_vars

\* C6: a former owner, still in the user's code, whose lease has ended and whose
\* task another worker has claimed since.
C6_FormerOwnerStillRuns ==
  \E w \in Workers :
    /\ InUserCode(w)
    /\ w \notin leases
    /\ claim[wid[w]] \notin {NoClaim, w}

\* The step in which finish or finish_error of worker w writes the record.
FinishWrites(w) == pc[w] # "release" /\ pc'[w] = "release"

\* The step in which finish or finish_error of worker w returns Ok.
FinishReturns(w) == pc[w] = "release" /\ pc'[w] = "next"

\* finish and finish_error write the payload slot and the terminal status in one
\* put while the claim is still attached to the worker's lease.
FinishWritesFirst ==
  \A w \in Workers :
    FinishWrites(w)
      => /\ is_final(rec'[wid[w]].status)
         /\ rec'[wid[w]] = FinishData(w)
         /\ rec'[wid[w]] = wstate'[w]
         /\ claim'[wid[w]] = w /\ w \in leases'

\* C7 as stated: finish and finish_error write payload and terminal status
\* first and revoke the lease afterwards; when they return Ok the claim is absent
\* and the record holds the terminal status and the payload.
C7_FinishThenRevoke ==
  [][/\ FinishWritesFirst
     /\ \A w \in Workers :
          FinishReturns(w)
            => /\ claim'[wid[w]] = NoClaim
               /\ rec'[wid[w]] = wstate[w]]_vars

\* C7: as C7_FinishThenRevoke, except that when finish_error returns Ok the
\* record may instead be the one the resume tool has made of it since the write:
\* status Resuming, no error.
C7_FinishThenRevokeOrResumed ==
  [][/\ FinishWritesFirst
     /\ \A w \in Workers :
          FinishReturns(w)
            => /\ claim'[wid[w]] = NoClaim
               /\ \/ rec'[wid[w]] = wstate[w]
                  \/ /\ wstate[w].status = "Error"
                     /\ rec'[wid[w]] =
                          [wstate[w] EXCEPT !.status = "Resuming", !.error = "none"]]_vars

\* C7: finish has written Complete and the result, and the lease is not yet
\* revoked.
C7_WrittenNotYetRevoked ==
  \E w \in Workers :
    /\ pc[w] = "release" /\ w \in leases
    /\ rec[wid[w]].status = "Complete" /\ rec[wid[w]].result = "ok"
    /\ claim[wid[w]] = w

\* ------------------------------------------------------------- fairness
\* The monitor's tasks are scheduled: its scan, and then each watcher's loop,
\* handles what it holds.
MonitorFairness ==
  /\ WF_vars(MonitorScan)
  /\ WF_vars(MonitorScanItem)
  /\ WF_vars(MonitorTaskEvent)
  /\ WF_vars(MonitorOrphanEvent)

MonitorFairSpec == Spec /\ MonitorFairness

\* etcd ends the lease of a worker that has stopped: nothing renews it.
LeaseExpireOfStopped(w) ==
  /\ pc[w] \in {"panicked", "exited", "crashed"}
  /\ LeaseExpire(w)

\* Between claim_task and the spawn of user code process_queue awaits only the
\* store: Task::new and the dispatch on the status go on.
WorkerFairness ==
  \A w \in Workers :
    /\ WF_vars(TaskNew(w))
    /\ WF_vars(\E thr \in BOOLEAN : StartOrResume(w, thr))
    /\ WF_vars(LeaseExpireOfStopped(w))

FairSpec == Spec /\ MonitorFairness /\ WorkerFairness

\* C8: under a monitor that keeps running, a task whose status is Pending or
\* Resuming and that has no claim eventually has a queue entry or a claim.
C8_PendingEventuallyQueued ==
  \A id \in Tasks :
    (rec[id].status \in {"Pending", "Resuming"} /\ claim[id] = NoClaim)
      ~> (InQueue(id) \/ claim[id] # NoClaim)

\* C8: a Pending task, created after the monitor's scan, with neither queue entry
\* nor claim.
C8_PendingNotYetQueued ==
  \E id \in Tasks :
    /\ rec[id].status = "Pending" /\ mpc = "run" /\ scanQ = <<>>
    /\ ~InQueue(id) /\ claim[id] = NoClaim

\* C9: once a Running task has lost its claim, the monitor eventually has
\* rewritten the record to Resuming with no interrupt key left, and the task
\* eventually is Resuming with a queue entry (or a claim already taken from it).
C9_OrphanRecovered ==
  \A id \in Tasks :
    /\ (rec[id].status = "Running" /\ claim[id] = NoClaim)
         ~> (rec[id].status = "Resuming" /\ interrupt[id] = "none")
    /\ (rec[id].status = "Running" /\ claim[id] = NoClaim)
         ~> (rec[id].status = "Resuming" /\ (InQueue(id) \/ claim[id] # NoClaim))

\* C9: the owner of a Running task has died, its lease has ended, an interrupt
\* key is present, and the orphan watcher holds the deletion of the claim.
C9_OrphanWithInterrupt ==
  \E id \in Tasks :
    /\ rec[id].status = "Running" /\ claim[id] = NoClaim
    /\ interrupt[id] # "none"
    /\ HasKeyValue(claimEvents, id, {"Running"})
    /\ \E w \in Workers : pc[w] = "crashed" /\ w \notin leases

\* C10: the runtime stops handling a task it has claimed, before finish or
\* finish_error has written a terminal status for it, only when the lease of the
\* claim is lost.
C10_StopsOnlyOnLeaseLoss ==
  [][\A w \in Workers :
       (HoldsTask(w) /\ pc[w] # "release" /\ pc'[w] \in {"panicked", "exited"})
         => w \notin leases]_vars

\* C10: the user's process runs under a lease that exists while an interrupt key
\* of the task is present.
C10_InterruptDuringProcess ==
  \E w \in Workers :
    pc[w] = "process" /\ w \in leases /\ interrupt[wid[w]] # "none"

\* ------------------------------------------------------------ the happy path
\* The progress values of a run in which process stores a value that differs from
\* the one initialize returned.
HappyProgress == Progress \cup {"p2"}

\* The steps of a run with a monitor and workers that keep running, no kill of a
\* worker, no interrupt, no lease that ends while its worker handles the task, and
\* user code that returns Ok.  No claim of a record that is not final is deleted
\* in such a run, so the orphan watcher is handed nothing.
HappyNext ==
  \/ \E id \in Tasks : CreateTask(id)
  \/ MonitorScan
  \/ MonitorScanItem
  \/ MonitorTaskEvent
  \/ \E w \in Workers : NextTaskScan(w)
  \/ \E w \in Workers : ClaimTask(w)
  \/ \E w \in Workers : TaskNew(w)
  \/ \E w \in Workers, thr \in BOOLEAN : StartOrResume(w, thr)
  \/ \E w \in Workers, thr \in BOOLEAN, p \in HappyProgress : UserSetProgress(w, thr, p)
  \/ \E w \in Workers : UserReturn(w, "ok")
  \/ \E w \in Workers, thr \in BOOLEAN, p \in HappyProgress : AfterInitialize(w, thr, p)
  \/ \E w \in Workers, thr \in BOOLEAN : RefreshState(w, thr)
  \/ \E w \in Workers, thr \in BOOLEAN : Finish(w, thr)
  \/ \E w \in Workers : release_claim(w)

\* The worker's loop is scheduled, every request to the store is answered, and
\* the user's initialize and process return.
HappyFairness ==
  /\ MonitorFairness
  /\ \A w \in Workers :
       /\ WF_vars(NextTaskScan(w))
       /\ WF_vars(ClaimTask(w))
       /\ WF_vars(TaskNew(w))
       /\ WF_vars(\E thr \in BOOLEAN : StartOrResume(w, thr))
       /\ WF_vars(UserReturn(w, "ok"))
       /\ WF_vars(\E thr \in BOOLEAN, p \in HappyProgress : AfterInitialize(w, thr, p))
       /\ WF_vars(\E thr \in BOOLEAN : RefreshState(w, thr))
       /\ WF_vars(\E thr \in BOOLEAN : Finish(w, thr))
       /\ WF_vars(release_claim(w))

HappySpec == Init /\ [][HappyNext]_vars /\ HappyFairness

\* C11: in a run with a running monitor and worker and no crash or interrupt, a
\* task created as Pending with an init slot eventually is Complete with the init
\* slot it was created with and the result, and with neither claim nor queue
\* entry; while process runs the record holds the progress the liveness handle
\* stored last, and the step that writes Complete changes the status and the
\* result slot and nothing else of that record.
C11_HappyPathCompletes ==
  /\ \A id \in Tasks :
       (rec[id].status = "Pending" /\ rec[id].init = InitValue)
         ~> /\ rec[id].status = "Complete"
            /\ rec[id].init = InitValue
            /\ rec[id].result = "ok"
            /\ rec[id].progress \in HappyProgress
            /\ claim[id] = NoClaim
            /\ ~InQueue(id)
  /\ [](\A w \in Workers :
          pc[w] \in {"process", "proc_done"} => rec[wid[w]].progress = lstate[w].progress)
  /\ [][\A id \in Tasks :
          (rec'[id].status = "Complete" /\ rec[id].status # "Complete")
            => rec'[id] = [rec[id] EXCEPT !.status = "Complete", !.result = "ok"]]_vars

\* C11: process has returned after it stored, through its handle, a progress
\* value that differs from the one the runtime's Task holds from initialize.
C11_ProcessStoredNewProgress ==
  \E w \in Workers :
    /\ pc[w] = "proc_done"
    /\ lstate[w].progress # wstate[w].progress
    /\ rec[wid[w]].progress = lstate[w].progress

\* --------------------------------------------------------- crash and resume
\* The steps of HappyNext, and: a worker is killed while it handles a task, etcd
\* ends the lease of the killed worker, and the orphan watcher handles the
\* deletion of its claim.
CrashNext ==
  \/ HappyNext
  \/ MonitorOrphanEvent
  \/ \E w \in Workers : Crash(w)
  \/ \E w \in Workers : LeaseExpireOfStopped(w)

CrashFairness ==
  /\ HappyFairness
  /\ \A w \in Workers : WF_vars(LeaseExpireOfStopped(w))

CrashSpec == Init /\ [][CrashNext]_vars /\ CrashFairness

\* The terminal records of the runs without a crash (HappySpec): Complete, the
\* init slot of the client, a progress value that was stored, the result.
CrashFreeTerminalRecords ==
  {TaskData("Complete", InitValue, p, "ok", "none") : p \in HappyProgress}

\* C12: a worker that picks up a Resuming record goes on with process, never with
\* initialize, and its handle starts from the progress the record holds; and the
\* terminal record of a run with kills of workers is one of the terminal records
\* of the runs without.
C12_ResumeEquivalentToNoCrash ==
  /\ [][\A w \in Workers :
          (pc[w] = "loaded" /\ wstate[w].status = "Resuming" /\ pc'[w] \in {"init", "process"})
            => /\ pc'[w] = "process"
               /\ lstate'[w].progress = rec[wid[w]].progress
               /\ lstate'[w].init = InitValue]_vars
  /\ [](\A id \in Tasks :
          is_final(rec[id].status) => rec[id] \in CrashFreeTerminalRecords)

\* C12: the part of C12_ResumeEquivalentToNoCrash about the step that resumes.
C12_ResumesWithProcess ==
  [][\A w \in Workers :
       (pc[w] = "loaded" /\ wstate[w].status = "Resuming" /\ pc'[w] \in {"init", "process"})
         => /\ pc'[w] = "process"
            /\ lstate'[w].progress = rec[wid[w]].progress
            /\ lstate'[w].init = InitValue]_vars

\* C12: a worker was killed, and another one runs process on the task it has
\* resumed.
C12_ResumedAfterCrash ==
  \E w1, w2 \in Workers :
    /\ pc[w1] = "crashed"
    /\ pc[w2] = "process" /\ claim[wid[w2]] = w2 /\ w2 \in leases
    /\ rec[wid[w2]].status = "Running"

\* ------------------------------------------------------ the liveness handle
\* The user's process and the handle it is given (TaskLiveness, SyncTaskLiveness,
\* LivenessGuard), with time in seconds: the lease of a worker is granted for
\* LeaseTTL seconds and ends no earlier than that after its last renewal; alive
\* renews only if more than RENEW_DURATION has passed since Task.last_renew.
RENEW_DURATION == 1
LeaseTTL == 10

\* RENEW_DURATION < self.last_renew.elapsed() is false: alive does nothing.
Throttled(w) == ~(RENEW_DURATION < last_renew_elapsed[w])

\* alive sends a keep-alive and etcd confirms it with a ttl that is not 0.
AliveRenews(w) == ~Throttled(w) /\ w \in leases

\* The clocks after a call of alive that ended as out: a confirmed keep-alive
\* restarts the lease's TTL, and last_renew is set when alive gets to its end.
AliveClocks(w, out) ==
  /\ ttl' = IF AliveRenews(w) THEN [ttl EXCEPT ![w] = LeaseTTL] ELSE ttl
  /\ last_renew_elapsed' =
       IF AliveRenews(w) /\ out = "ok"
       THEN [last_renew_elapsed EXCEPT ![w] = 0]
       ELSE last_renew_elapsed

\* What the user code gets from a call that ran alive: Ok(()), the error
\* LeaseExpired, or the panic of alive.
ResultOf(out) ==
  CASE out = "ok" -> "Ok"
    [] out = "expired" -> "LeaseExpired"
    [] OTHER -> "panic"

\* The record of a call op of the handle that ran alive: its result, whether a
\* keep-alive was confirmed during it, and the interrupt it read.
CallResult(op, w) ==
  [op |-> op,
   result |-> ResultOf(alive(w, Throttled(w))),
   renewed |-> AliveRenews(w),
   seen |-> IF AliveRenews(w) THEN interrupt[wid[w]] ELSE "none"]

\* A call that ran no alive.
PlainResult(op, res) == [op |-> op, result |-> res, renewed |-> FALSE, seen |-> "none"]

\* A panic inside the spawned process: the JoinHandle of process_queue yields it.
UserPanics(w) ==
  /\ pc' = [pc EXCEPT ![w] = "proc_done"]
  /\ ures' = [ures EXCEPT ![w] = "panic"]

\* The state in which process_queue has spawned process for a task it has
\* started and initialized: the record is Running with the progress of
\* initialize, the claim is attached to the lease of the worker, the monitor has
\* handled what it was sent.
LiveInit ==
  \E w \in Workers, id \in Tasks :
    LET data == TaskData("Running", InitValue, "p1", "none", "none")
    IN  /\ rec = [x \in Tasks |-> IF x = id THEN data ELSE AbsentData]
        /\ queue = <<>>
        /\ claim = [x \in Tasks |-> IF x = id THEN w ELSE NoClaim]
        /\ interrupt = [x \in Tasks |-> "none"]
        /\ leases = {w}
        /\ mpc = "run"
        /\ scanQ = <<>>
        /\ taskEvents = <<>>
        /\ claimEvents = <<>>
        /\ pc = [x \in Workers |-> IF x = w THEN "process" ELSE "next"]
        /\ wid = [x \in Workers |-> IF x = w THEN id ELSE NoTask]
        /\ wstate = [x \in Workers |-> IF x = w THEN data ELSE AbsentData]
        /\ lstate = [x \in Workers |-> IF x = w THEN data ELSE AbsentData]
        /\ todo = [x \in Workers |-> <<>>]
        /\ ures = [x \in Workers |-> "none"]
        /\ oppc = "idle"
        /\ opSnap = [id |-> NoTask, current |-> FALSE]
        /\ nResumes = 0
        /\ hpc = [x \in Workers |-> "run"]
        /\ last_call = [x \in Workers |-> NoCall]
        /\ guard = [x \in Workers |-> NoGuard]
        /\ ttl = [x \in Workers |-> IF x = w THEN LeaseTTL ELSE 0]
        /\ last_renew_elapsed = [x \in Workers |-> 0]
        /\ SideInit

\* A second passes.  etcd ends a lease whose TTL has run out before more time
\* passes.
Tick ==
  /\ \A w \in leases : ttl[w] > 0
  /\ ttl' = [w \in Workers |-> IF w \in leases THEN ttl[w] - 1 ELSE ttl[w]]
  /\ last_renew_elapsed' =
       [w \in Workers |->
          IF pc[w] = "process" /\ last_renew_elapsed[w] <= RENEW_DURATION
          THEN last_renew_elapsed[w] + 1
          ELSE last_renew_elapsed[w]]
  /\ UNCHANGED <<mainVars, hpc, last_call, guard>>
  /\ UNCHANGED sideVars

\* The lease of w ends when its TTL has run out.
LiveLeaseExpire(w) ==
  /\ ttl[w] = 0
  /\ LeaseExpire(w)

\* The user's process calls keepalive of its handle.
CallKeepalive(w) ==
  /\ pc[w] = "process"
  /\ hpc[w] = "run"
  /\ hpc' = [hpc EXCEPT ![w] = "keepalive"]
  /\ UNCHANGED <<mainVars, last_call, guard, ttl, last_renew_elapsed>>
  /\ UNCHANGED sideVars

\* TaskLiveness::keepalive: Task::alive, and its result to the caller.
ServeKeepalive(w) ==
  /\ hpc[w] = "keepalive"
  /\ LET out == alive(w, Throttled(w))
     IN  /\ AliveClocks(w, out)
         /\ last_call' = [last_call EXCEPT ![w] = CallResult("keepalive", w)]
         /\ IF out = "panic" THEN UserPanics(w) ELSE UNCHANGED <<pc, ures>>
  /\ hpc' = [hpc EXCEPT ![w] = "run"]
  /\ UNCHANGED <<storeVars, monVars, wid, wstate, lstate, todo, opVars, guard>>
  /\ UNCHANGED sideVars

\* TaskLiveness::guarded_keepalive: send_keep_alive, then spawn
\* keep_alive_continuously and hand out the guard.
GuardedKeepalive(w) ==
  /\ pc[w] = "process"
  /\ hpc[w] = "run"
  /\ IF w \in leases
     THEN /\ ttl' = [ttl EXCEPT ![w] = LeaseTTL]
          /\ guard' = [guard EXCEPT ![w] =
                         [canary |-> TRUE, expecting_liveness |-> TRUE, renewer |-> "running"]]
          /\ hpc' = [hpc EXCEPT ![w] = "guarded"]
          /\ UNCHANGED last_call
     ELSE /\ last_call' = [last_call EXCEPT ![w] =
                             PlainResult("guarded_keepalive", "LeaseExpired")]
          /\ UNCHANGED <<ttl, guard, hpc>>
  /\ UNCHANGED <<mainVars, last_renew_elapsed>>
  /\ UNCHANGED sideVars

\* keep_alive_continuously, one turn of its loop: it ends when the canary is
\* false, and it returns the error of send_keep_alive to a JoinHandle that is not
\* awaited; it never writes the canary.
keep_alive_continuously(w) ==
  /\ guard[w].renewer = "running"
  /\ IF ~guard[w].canary
     THEN /\ guard' = [guard EXCEPT ![w].renewer = "stopped"]
          /\ UNCHANGED ttl
     ELSE IF w \in leases
     THEN /\ ttl' = [ttl EXCEPT ![w] = LeaseTTL]
          /\ UNCHANGED guard
     ELSE /\ guard' = [guard EXCEPT ![w].renewer = "failed"]
          /\ UNCHANGED ttl
  /\ UNCHANGED <<mainVars, hpc, last_call, last_renew_elapsed>>
  /\ UNCHANGED sideVars

\* LivenessGuard::join, and the drop of the guard it consumes.
GuardJoin(w) ==
  /\ hpc[w] = "guarded"
  /\ last_call' = [last_call EXCEPT ![w] =
                     PlainResult("join",
                                 IF guard[w].expecting_liveness /\ ~guard[w].canary
                                 THEN "LeaseExpired" ELSE "Ok")]
  /\ guard' = [guard EXCEPT ![w].expecting_liveness = FALSE, ![w].canary = FALSE]
  /\ hpc' = [hpc EXCEPT ![w] = "run"]
  /\ UNCHANGED <<mainVars, ttl, last_renew_elapsed>>
  /\ UNCHANGED sideVars

\* Drop for LivenessGuard of a guard that was not joined.
GuardDrop(w) ==
  /\ hpc[w] = "guarded"
  /\ IF guard[w].expecting_liveness /\ ~guard[w].canary
     THEN /\ last_call' = [last_call EXCEPT ![w] = PlainResult("drop", "panic")]
          /\ UserPanics(w)
     ELSE /\ last_call' = [last_call EXCEPT ![w] = PlainResult("drop", "Ok")]
          /\ UNCHANGED <<pc, ures>>
  /\ guard' = [guard EXCEPT ![w].canary = FALSE]
  /\ hpc' = [hpc EXCEPT ![w] = "run"]
  /\ UNCHANGED <<storeVars, monVars, wid, wstate, lstate, todo, opVars, ttl, last_renew_elapsed>>
  /\ UNCHANGED sideVars

\* SyncTaskLiveness::blocking_keepalive up to the call of func:
\* guarded_keepalive runs alive, has the renewer spawned if that was Ok, and its
\* own Result is not looked at; func runs either way.
BlockingKeepaliveEnter(w) ==
  /\ pc[w] = "process"
  /\ hpc[w] = "run"
  /\ LET out == alive(w, Throttled(w))
     IN  /\ AliveClocks(w, out)
         /\ guard' = [guard EXCEPT ![w] =
                        IF out = "ok"
                        THEN [canary |-> TRUE, expecting_liveness |-> TRUE, renewer |-> "running"]
                        ELSE NoGuard]
         /\ IF out = "panic"
            THEN /\ UserPanics(w)
                 /\ last_call' = [last_call EXCEPT ![w] = CallResult("blocking_keepalive", w)]
                 /\ UNCHANGED hpc
            ELSE /\ hpc' = [hpc EXCEPT ![w] = "blocking"]
                 /\ UNCHANGED <<pc, ures, last_call>>
  /\ UNCHANGED <<storeVars, monVars, wid, wstate, lstate, todo, opVars>>
  /\ UNCHANGED sideVars

\* SyncTaskLiveness::blocking_keepalive after func has returned: keepalive()?,
\* Ok(result), and the guard goes out of scope.
BlockingKeepaliveReturn(w) ==
  /\ hpc[w] = "blocking"
  /\ LET out == alive(w, Throttled(w))
     IN  /\ AliveClocks(w, out)
         /\ last_call' = [last_call EXCEPT ![w] = CallResult("blocking_keepalive", w)]
         /\ IF out = "panic" THEN UserPanics(w) ELSE UNCHANGED <<pc, ures>>
  /\ guard' = [guard EXCEPT ![w].canary = FALSE, ![w].expecting_liveness = FALSE]
  /\ hpc' = [hpc EXCEPT ![w] = "run"]
  /\ UNCHANGED <<storeVars, monVars, wid, wstate, lstate, todo, opVars>>
  /\ UNCHANGED sideVars

\* The user's process returns Ok outside of any call of its handle.
ProcessReturns(w) ==
  /\ hpc[w] = "run"
  /\ pc[w] = "process"
  /\ UserReturn(w, "ok")

LiveNext ==
  \/ Tick
  \/ \E w \in Workers : LiveLeaseExpire(w)
  \/ \E id \in Tasks, reason \in {"canceled", "paused"} : WriteInterrupt(id, reason)
  \/ \E w \in Workers : CallKeepalive(w)
  \/ \E w \in Workers : ServeKeepalive(w)
  \/ \E w \in Workers : GuardedKeepalive(w)
  \/ \E w \in Workers : keep_alive_continuously(w)
  \/ \E w \in Workers : GuardJoin(w)
  \/ \E w \in Workers : GuardDrop(w)
  \/ \E w \in Workers : BlockingKeepaliveEnter(w)
  \/ \E w \in Workers : BlockingKeepaliveReturn(w)
  \/ \E w \in Workers : ProcessReturns(w)

LiveSpec == LiveInit /\ [][LiveNext]_vars

\* The status an interrupt of the given value asks for.
IndicatedStatus(reason) == IF reason = "canceled" THEN "Canceled" ELSE "Paused"

\* The step in which a keepalive call of the user's process is served.
KeepaliveServed(w) == hpc[w] = "keepalive" /\ hpc'[w] = "run"

\* C13: a keep-alive of the owning worker that is sent while the interrupt key
\* holds canceled (paused) makes the record's status Canceled (Paused) and deletes
\* the interrupt key in the same step; and no step does one of the two without
\* the other.
C13_InterruptConsumedInOneTxn ==
  [][/\ \A w \in Workers :
          (KeepaliveServed(w) /\ AliveRenews(w) /\ interrupt[wid[w]] # "none")
            => /\ rec'[wid[w]].status = IndicatedStatus(interrupt[wid[w]])
               /\ interrupt'[wid[w]] = "none"
     /\ \A id \in Tasks :
          (rec'[id].status \in {"Canceled", "Paused"} /\ rec'[id].status # rec[id].status)
            <=> (interrupt[id] # "none" /\ interrupt'[id] = "none")]_vars

\* C13: the owning worker is about to run a keep-alive that will be sent, and the
\* interrupt key holds canceled.
C13_KeepaliveMeetsInterrupt ==
  \E w \in Workers :
    hpc[w] = "keepalive" /\ AliveRenews(w) /\ interrupt[wid[w]] = "canceled"

\* C14: an interrupt written after a keep-alive of the owning worker was sent and
\* returned Ok is consumed by the next keep-alive the worker sends: after it the
\* interrupt key is absent and the status is the indicated one.
C14_ConsumedByNextKeepalive ==
  [][\A w \in Workers :
       ( /\ last_call[w].op = "keepalive"
         /\ last_call[w].result = "Ok"
         /\ last_call[w].renewed
         /\ interrupt[wid[w]] # "none"
         /\ KeepaliveServed(w)
         /\ AliveRenews(w) )
         => /\ interrupt'[wid[w]] = "none"
            /\ rec'[wid[w]].status = IndicatedStatus(interrupt[wid[w]])]_vars

\* C14: a keep-alive was sent and returned Ok, an interrupt was written since, and
\* the worker has called keepalive again.
C14_InterruptBetweenKeepalives ==
  \E w \in Workers :
    /\ last_call[w] = [op |-> "keepalive", result |-> "Ok", renewed |-> TRUE, seen |-> "none"]
    /\ interrupt[wid[w]] # "none"
    /\ hpc[w] = "keepalive"
    /\ AliveRenews(w)

\* C16: a keepalive call of the handle during which an interrupt was read returns
\* the result Interrupted to the user code.
C16_InterruptedIsReported ==
  \A w \in Workers :
    (last_call[w].op = "keepalive" /\ last_call[w].seen # "none")
      => last_call[w].result = "Interrupted"

\* C16: a keepalive call has ended that renewed the lease and found the
\* interrupt key.
C16_KeepaliveReadInterrupt ==
  \E w \in Workers :
    last_call[w].op = "keepalive" /\ last_call[w].renewed /\ last_call[w].seen = "paused"

\* C15: when the user's process has returned for a Running task whose interrupt
\* key holds canceled, the runtime's step for the task goes on without fault; a
\* status Canceled is not overwritten; and the step ends with the lease revoked
\* and the claim removed.
C15_CanceledEndState ==
  [][/\ \A w \in Workers :
          ( /\ pc[w] = "proc_done"
            /\ w \in leases /\ claim[wid[w]] = w
            /\ interrupt[wid[w]] = "canceled"
            /\ rec[wid[w]].status = "Running"
            /\ pc'[w] \notin {"proc_done", "crashed"} )
            => pc'[w] = "finishing"
     /\ \A id \in Tasks :
          rec[id].status = "Canceled" => rec'[id].status = "Canceled"
     /\ \A w \in Workers :
          (pc[w] = "release" /\ pc'[w] = "next" /\ rec[wid[w]].status = "Canceled")
            => claim'[wid[w]] = NoClaim]_vars

\* C15: the user's process has returned, the task is Running under a lease that
\* exists, and the interrupt key holds canceled.
C15_ProcessReturnedCanceled ==
  \E w \in Workers :
    /\ pc[w] = "proc_done" /\ w \in leases /\ claim[wid[w]] = w
    /\ interrupt[wid[w]] = "canceled" /\ rec[wid[w]].status = "Running"

\* C17: when the renewer of a guard got LeaseExpired while the guard was alive,
\* the end of the guard's scope reports it: join returns LeaseExpired, and the
\* drop of the guard that was not joined panics.
C17_LostLeaseNoticedAtScopeEnd ==
  [][\A w \in Workers :
       (hpc[w] = "guarded" /\ guard[w].renewer = "failed" /\ hpc'[w] = "run")
         => /\ last_call'[w].op = "join" => last_call'[w].result = "LeaseExpired"
            /\ last_call'[w].op = "drop" => last_call'[w].result = "panic"]_vars

\* C17: the user code holds a guard whose renewer has ended with LeaseExpired.
C17_RenewerFailedUnderGuard ==
  \E w \in Workers :
    hpc[w] = "guarded" /\ guard[w].renewer = "failed" /\ w \notin leases

\* The step in which blocking_keepalive returns to the user's process.
BlockingKeepaliveReturns(w) == hpc[w] = "blocking" /\ hpc'[w] = "run"

\* C18 as stated: blocking_keepalive returns Ok only if a renewal of the lease
\* was confirmed after func returned.
C18_OkOnlyAfterRenewal ==
  \A w \in Workers :
    (last_call[w].op = "blocking_keepalive" /\ last_call[w].result = "Ok")
      => last_call[w].renewed

\* C18: blocking_keepalive returns Ok only if the lease exists when func has
\* returned, and then either a renewal was confirmed after func returned or the
\* last renewal of alive is at most RENEW_DURATION old and none is sent; if the
\* lease was lost during func it does not return Ok.
C18_OkOnlyUnderLease ==
  [][\A w \in Workers :
       BlockingKeepaliveReturns(w)
         => /\ last_call'[w].op = "blocking_keepalive"
            /\ last_call'[w].result = "Ok"
                 => /\ w \in leases
                    /\ last_call'[w].renewed \/ last_renew_elapsed[w] <= RENEW_DURATION
            /\ w \notin leases => last_call'[w].result = "LeaseExpired"]_vars

\* C18: the lease was lost while func ran under the guard of blocking_keepalive,
\* and blocking_keepalive has returned.
C18_LeaseLostDuringFunc ==
  \E w \in Workers :
    /\ last_call[w].op = "blocking_keepalive"
    /\ last_call[w].result = "LeaseExpired"
    /\ guard[w].renewer # "none"
    /\ w \notin leases

\* C18: blocking_keepalive has returned Ok without a renewal after func: its
\* last keep-alive came within RENEW_DURATION of the renewal before func.
C18_OkWithoutRenewal ==
  \E w \in Workers :
    /\ last_call[w].op = "blocking_keepalive"
    /\ last_call[w].result = "Ok"
    /\ ~last_call[w].renewed

\* The runtime of worker w holds the panic of the user's initialize or process
\* and has yet to write the record.
HoldsUserPanic(w) ==
  ures[w] = "panic" /\ pc[w] \in {"init_done", "proc_done", "finishing"}

\* C19: once the user's initialize or process has panicked, every step of the
\* runtime for that task, made under a lease that exists, leads on to the write
\* of status Error with the error slot of the panic, and from there to the
\* release of the claim and to next_task.
C19_PanicCaptured ==
  [][\A w \in Workers :
       /\ (HoldsUserPanic(w) /\ w \in leases /\ pc'[w] \notin {pc[w], "crashed"})
            => /\ pc'[w] \in {"finishing", "release"}
               /\ pc'[w] = "release"
                    => /\ rec'[wid[w]].status = "Error"
                       /\ rec'[wid[w]].error = "panic"
       /\ (pc[w] = "release" /\ w \in leases /\ pc'[w] \notin {"release", "crashed"})
            => pc'[w] = "next" /\ claim'[wid[w]] = NoClaim]_vars

\* C19: as C19_PanicCaptured, for the steps made while no interrupt key of the
\* task is present.
C19_PanicCapturedNoInterrupt ==
  [][\A w \in Workers :
       /\ ( /\ HoldsUserPanic(w) /\ w \in leases
            /\ interrupt[wid[w]] = "none"
            /\ pc'[w] \notin {pc[w], "crashed"} )
            => /\ pc'[w] \in {"finishing", "release"}
               /\ pc'[w] = "release"
                    => /\ rec'[wid[w]].status = "Error"
                       /\ rec'[wid[w]].error = "panic"
       /\ (pc[w] = "release" /\ w \in leases /\ pc'[w] \notin {"release", "crashed"})
            => pc'[w] = "next" /\ claim'[wid[w]] = NoClaim]_vars

\* C19: the user's process has panicked under a lease that exists, and the
\* runtime is about to refresh its state.
C19_ProcessPanicked ==
  \E w \in Workers :
    pc[w] = "proc_done" /\ ures[w] = "panic" /\ w \in leases /\ claim[wid[w]] = w

\* C20: from a state with no claim and no queue entry of id, the enqueue
\* transaction run twice leaves the queue that one run leaves, which is the queue
\* with the one entry of id added; the queue never holds two entries of a task;
\* and a step that adds a queue entry changes no record, claim, interrupt or
\* lease.
C20_EnqueueIdempotent ==
  /\ [](\A id \in Tasks :
          (claim[id] = NoClaim /\ ~InQueue(id))
            => /\ enqueue_txn(queue, claim, id) = Append(queue, id)
               /\ enqueue_txn(enqueue_txn(queue, claim, id), claim, id)
                    = enqueue_txn(queue, claim, id))
  /\ [](\A i, j \in 1..Len(queue) : queue[i] = queue[j] => i = j)
  /\ [][Len(queue') > Len(queue)
          => /\ \E id \in Tasks : queue' = Append(queue, id)
             /\ UNCHANGED <<rec, claim, interrupt, leases>>]_vars

\* C20: the queue entry of a task exists, no claim does, and the monitor holds a
\* Pending or Resuming KeyValue of the task: it will run the enqueue transaction
\* again.
C20_EnqueueRunsAgain ==
  \E id \in Tasks :
    /\ InQueue(id) /\ claim[id] = NoClaim
    /\ mpc = "run" /\ scanQ = <<>>
    /\ \/ HasKeyValue(taskEvents, id, {"Pending", "Resuming"})
       \/ HasKeyValue(claimEvents, id, {"Pending", "Resuming"})


\* =========================================================================
\* The store with documents: serde of TaskData, the monitor's handling of
\* parents, waiting lists and records that do not parse, the resume tool.
\* =========================================================================

\* ------------------------------------------------------------ JSON, serde
\* JSON values
Null == [is |-> "null"]
Str(s) == [is |-> "string", s |-> s]
Arr(a) == [is |-> "array", a |-> a]

\* Option<T>
None == [some |-> FALSE]
Some(v) == [some |-> TRUE, v |-> v]

\* What a key of the store holds: a JSON object (a function from member names to
\* JSON values), text that is no JSON object, or bytes that are no UTF-8.
Json(doc) == [kind |-> "json", doc |-> doc]
Text(t) == [kind |-> "text", text |-> t]
Bytes(b) == [kind |-> "bytes", bytes |-> b]

\* #[serde(rename_all = "lowercase")] of TaskStatus
StatusName(status) ==
  CASE status = "Pending" -> "pending"
    [] status = "Resuming" -> "resuming"
    [] status = "Running" -> "running"
    [] status = "Waiting" -> "waiting"
    [] status = "Paused" -> "paused"
    [] status = "Complete" -> "complete"
    [] status = "Error" -> "error"
    [] status = "Canceled" -> "canceled"

StatusNames == {StatusName(s) : s \in TaskStatus}

StatusOfName(name) == CHOOSE s \in TaskStatus : StatusName(s) = name

\* the members of a document that are fields of TaskData; the others are
\* collected by the flattened other_fields.  waiting is the field the monitor
\* reads (task_data.waiting), with the attributes of parent and children.
TaskDataFields == {"status", "parent", "children", "waiting"}

\* an Option field accepts a missing member and null
OptionParses(doc, k, is) == k \notin DOMAIN doc \/ doc[k].is \in {"null", is}

OptionOf(doc, k) ==
  IF k \in DOMAIN doc /\ doc[k].is # "null"
  THEN Some(IF doc[k].is = "string" THEN doc[k].s ELSE doc[k].a)
  ELSE None

\* serde_json::from_reader::<_, TaskData>: Ok(TaskData) or Err(diagnostic)
from_reader(value) ==
  IF value.kind # "json"
  THEN [ok |-> FALSE, e |-> "expected value at line 1 column 1"]
  ELSE LET doc == value.doc
       IN  IF "status" \notin DOMAIN doc
           THEN [ok |-> FALSE, e |-> "missing field status"]
           ELSE IF doc["status"].is # "string" \/ doc["status"].s \notin StatusNames
           THEN [ok |-> FALSE, e |-> "unknown variant"]
           ELSE IF ~OptionParses(doc, "parent", "string")
                   \/ ~OptionParses(doc, "children", "array")
                   \/ ~OptionParses(doc, "waiting", "array")
           THEN [ok |-> FALSE, e |-> "invalid type"]
           ELSE [ok |-> TRUE,
                 data |-> [status |-> StatusOfName(doc["status"].s),
                           parent |-> OptionOf(doc, "parent"),
                           children |-> OptionOf(doc, "children"),
                           waiting |-> OptionOf(doc, "waiting"),
                           other_fields |->
                             [k \in DOMAIN doc \ TaskDataFields |-> doc[k]]]]

\* a serialization that writes the fields of TaskData only
to_vec_known_fields_only(data) ==
  Json([status |-> Str(StatusName(data.status))]
       @@ (IF data.parent.some THEN "parent" :> Str(data.parent.v) ELSE <<>>)
       @@ (IF data.children.some THEN "children" :> Arr(data.children.v) ELSE <<>>)
       @@ (IF data.waiting.some THEN "waiting" :> Arr(data.waiting.v) ELSE <<>>))

\* serde_json::to_vec / to_string_pretty of a TaskData: the status, the Option
\* fields that are Some (skip_serializing_if = "Option::is_none"), then the
\* members of other_fields.  Documents are compared as JSON values, so the two
\* serializers and the order of the members do not differ here.
to_vec(data) ==
  Json([status |-> Str(StatusName(data.status))]
       @@ (IF data.parent.some THEN "parent" :> Str(data.parent.v) ELSE <<>>)
       @@ (IF data.children.some THEN "children" :> Arr(data.children.v) ELSE <<>>)
       @@ (IF data.waiting.some THEN "waiting" :> Arr(data.waiting.v) ELSE <<>>)
       @@ data.other_fields)

\* String::from_utf8_lossy of a stored value: the text itself, with every byte
\* sequence that is no UTF-8 replaced by U+FFFD.
from_utf8_lossy(value) ==
  IF value.kind = "bytes" THEN Text("U+FFFD") ELSE value

\* json!({"status": "error", "error": "unparsable task: {e}", "original": ...})
unparsable_document(value, e) ==
  Json([status |-> Str("error"),
        error |-> Str("unparsable task: " \o e),
        original |-> Str(from_utf8_lossy(value))])

\* ---------------------------------------------------------------- clients
\* The documents a client creates tasks/<id> with: p waits for its dependencies,
\* c1 and c2 name p as their parent; c2 may also be created with a value that
\* does not parse.
ClientValues(id) ==
  CASE id = "p" ->
         {Json([status |-> Str("waiting"), waiting |-> Arr(<<"c1">>),
                note |-> Str("n")]),
          Json([status |-> Str("waiting"), waiting |-> Arr(<<"c1", "c2">>),
                parent |-> Null]),
          Json([status |-> Str("waiting"), waiting |-> Arr(<<>>)]),
          Json([status |-> Str("waiting"), init |-> Str("i0")])}
    [] id = "c1" ->
         {Json([status |-> Str("pending"), parent |-> Str("p"), init |-> Str("i0")])}
    [] id = "c2" ->
         {Json([status |-> Str("pending"), parent |-> Str("p"), children |-> Null]),
          Text("{oops")}

\* ------------------------------------------------------------------ etcd
\* the KeyValue of tasks/<id> that a get or a watch event hands out
GetKV(id) == [key |-> id, value |-> tasksKV[id].value, version |-> tasksKV[id].version]

\* the monitor m after etcd has sent the task-update watch a PUT event: main has
\* read the store for its scan (the watch starts one revision later) and has not
\* returned
SentPut(m, kv) ==
  IF m.phase \in {"scan", "watch"} THEN [m EXCEPT !.events = Append(@, kv)] ELSE m

\* the monitor m after etcd has sent the orphan watch the DELETE event of
\* claims/<id>, with the record that the watcher reads at that revision
SentDelete(m, id) ==
  IF m.phase \in {"scan", "watch"} THEN [m EXCEPT !.orphans = Append(@, GetKV(id))] ELSE m

\* main goes from the scan to the select! over the two watchers when the last
\* record of the scan has been handled
Settle(m) ==
  IF m.phase = "scan" /\ m.scan = <<>> /\ m.task_handler.pc = "idle"
  THEN [m EXCEPT !.phase = "watch"]
  ELSE m

\* a put of tasks/<id>, the monitor being m otherwise
PutValue(m, id, value) ==
  /\ tasksKV' = [tasksKV EXCEPT ![id] = [value |-> value, version |-> @.version + 1]]
  /\ monitor' = Settle(SentPut(m, [key |-> id, value |-> value,
                                   version |-> tasksKV[id].version + 1]))

\* no put of a task record, the monitor being m otherwise
NoPut(m) ==
  /\ tasksKV' = tasksKV
  /\ monitor' = Settle(m)

\* Txn.when([Compare::version(key, Equal, kv.version())]).and_then([put]): the
\* put happens if the key is at the version of kv, otherwise nothing does
PutIfVersion(m, kv, value) ==
  IF tasksKV[kv.key].version = kv.version THEN PutValue(m, kv.key, value) ELSE NoPut(m)

\* --------------------------------------------------------------- monitor
\* enqueue_task on the document store: put queue/<id> if neither claims/<id> nor
\* queue/<id> exists
task_enqueue_task(id) ==
  queueKV' = IF id \notin claimsKV /\ id \notin queueKV THEN queueKV \cup {id} ELSE queueKV

\* resume_unclaimed whose transaction compares the version of the record only
orphan_resume_unclaimed_no_claim_compare(m, kv, task_data) ==
  IF tasksKV[kv.key].version = kv.version
  THEN /\ PutValue(m, kv.key, to_vec([task_data EXCEPT !.status = "Resuming"]))
       /\ interruptKV' = interruptKV \ {kv.key}
  ELSE /\ NoPut(m)
       /\ interruptKV' = interruptKV

\* resume_unclaimed on the document store: status Resuming, serialize, and in
\* one transaction put the record and delete the interrupt, if the record is at
\* the version of kv and no claim exists
orphan_resume_unclaimed(m, kv, task_data) ==
  IF tasksKV[kv.key].version = kv.version /\ kv.key \notin claimsKV
  THEN /\ PutValue(m, kv.key, to_vec([task_data EXCEPT !.status = "Resuming"]))
       /\ interruptKV' = interruptKV \ {kv.key}
  ELSE /\ NoPut(m)
       /\ interruptKV' = interruptKV

\* wake_up_waiting_task on the document store: status Resuming, serialize, put
\* if the record is at the version of kv
wait_wake_up_waiting_task(m, kv, task_data) ==
  PutIfVersion(m, kv, to_vec([task_data EXCEPT !.status = "Resuming"]))

\* the handler h of the monitor m is in the function `by` and has one more call
\* to make: wake_up_waiting_task on kv
ThenWake(m, h, by, kv, task_data) ==
  [m EXCEPT ![h] = [pc |-> "wake", by |-> by, kv |-> kv, task_data |-> task_data]]

Contains(list, x) == \E i \in 1..Len(list) : list[i] = x

\* wake_up_parent that finds the id of the task in no waiting list (it compares
\* the entries with the key of the task instead of its id)
wake_up_parent_compares_key(m, h, kv, task_data) == NoPut(m)

\* wake_up_parent: get the record of the parent that task_data names; if it
\* parses, is Waiting and its waiting list holds the id of the task,
\* wake_up_waiting_task follows
wake_up_parent(m, h, kv, task_data) ==
  IF ~task_data.parent.some THEN NoPut(m)
  ELSE LET parent_kv == GetKV(task_data.parent.v)
           parent_task == from_reader(parent_kv.value)
       IN  IF parent_kv.version = 0 THEN NoPut(m)
           ELSE IF /\ parent_task.ok
                   /\ parent_task.data.status = "Waiting"
                   /\ parent_task.data.waiting.some
                   /\ Contains(parent_task.data.waiting.v, kv.key)
           THEN NoPut(ThenWake(m, h, "wake_up_parent", parent_kv, parent_task.data))
           ELSE NoPut(m)

\* the response of the get of a dependency is a record that parses and is final
FinalNow(id) ==
  /\ tasksKV[id].version # 0
  /\ from_reader(tasksKV[id].value).ok
  /\ is_final(from_reader(tasksKV[id].value).data.status)

\* try_resume_waiting that wakes only when every dependency is final
try_resume_waiting_all_final(m, h, kv, task_data) ==
  IF task_data.status # "Waiting" THEN NoPut(m)
  ELSE IF ~task_data.waiting.some \/ task_data.waiting.v = <<>>
  THEN wait_wake_up_waiting_task(m, kv, task_data)
  ELSE IF \A i \in 1..Len(task_data.waiting.v) : FinalNow(task_data.waiting.v[i])
  THEN NoPut(ThenWake(m, h, "try_resume_waiting", kv, task_data))
  ELSE NoPut(m)

\* try_resume_waiting: no waiting list or an empty one: wake_up_waiting_task at
\* once; otherwise get every dependency in one transaction, and
\* wake_up_waiting_task follows at the first response that is a final record
try_resume_waiting(m, h, kv, task_data) ==
  IF task_data.status # "Waiting" THEN NoPut(m)
  ELSE IF ~task_data.waiting.some \/ task_data.waiting.v = <<>>
  THEN wait_wake_up_waiting_task(m, kv, task_data)
  ELSE IF \E i \in 1..Len(task_data.waiting.v) : FinalNow(task_data.waiting.v[i])
  THEN NoPut(ThenWake(m, h, "try_resume_waiting", kv, task_data))
  ELSE NoPut(m)

\* the Err branch of try_enqueue_task with a put that compares no version
error_unparsable_unguarded(m, kv, e) ==
  PutValue(m, kv.key, unparsable_document(kv.value, e))

\* the Err branch of try_enqueue_task: replace the record by the error document
\* if it is at the version of kv
error_unparsable(m, kv, e) ==
  PutIfVersion(m, kv, unparsable_document(kv.value, e))

\* try_enqueue_task on the document store, called by the handler h (the scan and
\* the task-update watcher, or the orphan watcher) of the monitor m with kv
task_try_enqueue_task(m, h, kv) ==
  LET parsed == from_reader(kv.value)
  IN  IF ~parsed.ok
      THEN /\ error_unparsable(m, kv, parsed.e)
           /\ UNCHANGED <<queueKV, interruptKV>>
      ELSE CASE parsed.data.status \in {"Pending", "Resuming"} ->
                  /\ task_enqueue_task(kv.key)
                  /\ NoPut(m)
                  /\ UNCHANGED interruptKV
             [] parsed.data.status = "Running" ->
                  /\ orphan_resume_unclaimed(m, kv, parsed.data)
                  /\ UNCHANGED queueKV
             [] is_final(parsed.data.status) ->
                  /\ wake_up_parent(m, h, kv, parsed.data)
                  /\ UNCHANGED <<queueKV, interruptKV>>
             [] parsed.data.status = "Waiting" ->
                  /\ try_resume_waiting(m, h, kv, parsed.data)
                  /\ UNCHANGED <<queueKV, interruptKV>>
             [] OTHER ->
                  /\ NoPut(m)
                  /\ UNCHANGED <<queueKV, interruptKV>>

otherDepVars == <<claimsKV, worker, tool, budget>>

\* process_existing_tasks: get the records of the tasks prefix at one revision,
\* in the order of their keys
process_existing_tasks ==
  /\ monitor.phase = "start"
  /\ LET ids == SelectSeq(<<"c1", "c2", "p">>, LAMBDA id : tasksKV[id].version # 0)
     IN  monitor' = Settle([monitor EXCEPT !.phase = "scan",
                                           !.scan = [i \in 1..Len(ids) |-> GetKV(ids[i])]])
  /\ UNCHANGED <<tasksKV, queueKV, interruptKV, otherDepVars>>
  /\ UNCHANGED <<mainVars, liveVars, ringVars, etcdVars>>

\* process_existing_tasks: try_enqueue_task on the next record of the scan
ScanRecord ==
  /\ monitor.phase = "scan"
  /\ monitor.task_handler.pc = "idle"
  /\ monitor.scan # <<>>
  /\ task_try_enqueue_task([monitor EXCEPT !.scan = Tail(@)], "task_handler",
                           Head(monitor.scan))
  /\ UNCHANGED otherDepVars
  /\ UNCHANGED <<mainVars, liveVars, ringVars, etcdVars>>

\* process_task_updates: try_enqueue_task on the next PUT event
process_task_updates ==
  /\ monitor.phase = "watch"
  /\ monitor.task_handler.pc = "idle"
  /\ monitor.events # <<>>
  /\ task_try_enqueue_task([monitor EXCEPT !.events = Tail(@)], "task_handler",
                           Head(monitor.events))
  /\ UNCHANGED otherDepVars
  /\ UNCHANGED <<mainVars, liveVars, ringVars, etcdVars>>

\* process_new_orphans: try_enqueue_task on the record of the next DELETE event
process_new_orphans ==
  /\ monitor.phase = "watch"
  /\ monitor.orphan_handler.pc = "idle"
  /\ monitor.orphans # <<>>
  /\ task_try_enqueue_task([monitor EXCEPT !.orphans = Tail(@)], "orphan_handler",
                           Head(monitor.orphans))
  /\ UNCHANGED otherDepVars
  /\ UNCHANGED <<mainVars, liveVars, ringVars, etcdVars>>

\* the call of wake_up_waiting_task that wake_up_parent or try_resume_waiting of
\* the handler h makes after its get
WakeCall(h) ==
  /\ monitor.phase \in {"scan", "watch"}
  /\ monitor[h].pc = "wake"
  /\ wait_wake_up_waiting_task([monitor EXCEPT ![h] = IdleHandler],
                               monitor[h].kv, monitor[h].task_data)
  /\ UNCHANGED <<queueKV, interruptKV, otherDepVars>>
  /\ UNCHANGED <<mainVars, liveVars, ringVars, etcdVars>>

\* etcd cancels a watch (its start revision was compacted): the watcher that
\* reads the response leaves its loop and returns Ok, select! drops the other
\* watcher, and main returns.
WatchCanceled ==
  /\ monitor.phase = "watch"
  /\ monitor.task_handler.pc = "idle" \/ monitor.orphan_handler.pc = "idle"
  /\ monitor' = [phase |-> "exited", scan |-> <<>>, events |-> <<>>, orphans |-> <<>>,
                 task_handler |-> IdleHandler, orphan_handler |-> IdleHandler]
  /\ UNCHANGED <<tasksKV, queueKV, interruptKV, otherDepVars>>
  /\ UNCHANGED <<mainVars, liveVars, ringVars, etcdVars>>

\* A client creates tasks/<id>.
CreateRecord(id, value) ==
  /\ tasksKV[id].version = 0
  /\ PutValue(monitor, id, value)
  /\ UNCHANGED <<queueKV, interruptKV, otherDepVars>>
  /\ UNCHANGED <<mainVars, liveVars, ringVars, etcdVars>>

\* ---------------------------------------------------------------- workers
\* Queue::claim_task on the queue entry of id: if no claim exists, delete the
\* queue entry and put the claim under a new lease; otherwise delete the queue
\* entry.
WorkerClaim(id) ==
  /\ id \in queueKV
  /\ worker[id].pc = "none"
  /\ queueKV' = queueKV \ {id}
  /\ IF id \notin claimsKV
     THEN /\ claimsKV' = claimsKV \cup {id}
          /\ worker' = [worker EXCEPT ![id] = [pc |-> "claimed"]]
     ELSE UNCHANGED <<claimsKV, worker>>
  /\ UNCHANGED <<tasksKV, interruptKV, monitor, tool, budget>>
  /\ UNCHANGED <<mainVars, liveVars, ringVars, etcdVars>>

\* Task::new: get_task_state reads and deserializes the record; an error ends
\* process_queue.
WorkerLoad(id) ==
  /\ worker[id].pc = "claimed"
  /\ LET parsed == from_reader(tasksKV[id].value)
     IN  worker' = [worker EXCEPT ![id] =
                      IF parsed.ok THEN [pc |-> "loaded", state |-> parsed.data]
                      ELSE [pc |-> "exited"]]
  /\ UNCHANGED <<tasksKV, queueKV, claimsKV, interruptKV, monitor, tool, budget>>
  /\ UNCHANGED <<mainVars, liveVars, ringVars, etcdVars>>

\* Task::update_state of the worker of id with the state data: alive (nothing
\* when throttled, an error without the lease, a panic on an interrupt), then
\* the put of the claim and of the serialized state.
WorkerWrite(id, thr, data, okpc) ==
  IF id \notin claimsKV
  THEN /\ worker' = [worker EXCEPT ![id] = [pc |-> "exited"]]
       /\ NoPut(monitor)
  ELSE IF ~thr /\ id \in interruptKV
  THEN /\ worker' = [worker EXCEPT ![id] = [pc |-> "panicked"]]
       /\ NoPut(monitor)
  ELSE /\ worker' = [worker EXCEPT ![id] = [pc |-> okpc, state |-> data]]
       /\ PutValue(monitor, id, to_vec(data))

\* process_queue: Task::start on a Pending and Task::resume on a Resuming task;
\* any other status is a panic.
WorkerStart(id, thr) ==
  /\ worker[id].pc = "loaded"
  /\ IF worker[id].state.status \in {"Pending", "Resuming"}
     THEN WorkerWrite(id, thr, [worker[id].state EXCEPT !.status = "Running"], "running")
     ELSE /\ worker' = [worker EXCEPT ![id] = [pc |-> "panicked"]]
          /\ NoPut(monitor)
  /\ UNCHANGED <<queueKV, claimsKV, interruptKV, tool, budget>>
  /\ UNCHANGED <<mainVars, liveVars, ringVars, etcdVars>>

\* Task::finish (slot "result") and Task::finish_error (slot "error") up to the
\* write of the record.
WorkerFinish(id, thr, slot) ==
  /\ worker[id].pc = "running"
  /\ LET state == worker[id].state
         data == [state EXCEPT
                    !.other_fields = (slot :> Str("r")) @@ state.other_fields,
                    !.status = IF slot = "result" THEN "Complete" ELSE "Error"]
     IN  WorkerWrite(id, thr, data, "release")
  /\ UNCHANGED <<queueKV, claimsKV, interruptKV, tool, budget>>
  /\ UNCHANGED <<mainVars, liveVars, ringVars, etcdVars>>

\* Task::release_claim: revoke the lease, which deletes the claim.
WorkerRelease(id) ==
  /\ worker[id].pc = "release"
  /\ worker' = [worker EXCEPT ![id] = [pc |-> "none"]]
  /\ claimsKV' = claimsKV \ {id}
  /\ monitor' = IF id \in claimsKV THEN SentDelete(monitor, id) ELSE monitor
  /\ UNCHANGED <<tasksKV, queueKV, interruptKV, tool, budget>>
  /\ UNCHANGED <<mainVars, liveVars, ringVars, etcdVars>>

\* The lease of the worker of id expires (the worker was killed, or has panicked
\* or exited): the claim is deleted.  Without its lease a worker writes nothing
\* more, and another worker may take the task.
ClaimExpires(id) ==
  /\ id \in claimsKV
  /\ budget.expiries > 0
  /\ budget' = [budget EXCEPT !.expiries = @ - 1]
  /\ claimsKV' = claimsKV \ {id}
  /\ monitor' = SentDelete(monitor, id)
  /\ worker' = [worker EXCEPT ![id] = [pc |-> "none"]]
  /\ UNCHANGED <<tasksKV, queueKV, interruptKV, tool>>
  /\ UNCHANGED <<mainVars, liveVars, ringVars, etcdVars>>

\* An operator writes interrupt/<id> of a task that is running.
OperatorInterrupt(id) ==
  /\ worker[id].pc = "running"
  /\ id \notin interruptKV
  /\ interruptKV' = interruptKV \cup {id}
  /\ UNCHANGED <<tasksKV, queueKV, claimsKV, monitor, worker, tool, budget>>
  /\ UNCHANGED <<mainVars, liveVars, ringVars, etcdVars>>

\* ------------------------------------------------------------ resume tool
\* the function without key k
Remove(f, k) == [x \in DOMAIN f \ {k} |-> f[x]]

\* resume of the operator o up to its transaction: get the record; false if
\* there is none or its status is not Error; a record that does not parse is a
\* panic.
ToolRead(o, id) ==
  /\ tool[o].pc # "read"
  /\ budget.resumes > 0
  /\ budget' = [budget EXCEPT !.resumes = @ - 1]
  /\ LET kv == GetKV(id)
         parsed == from_reader(kv.value)
     IN  tool' = [tool EXCEPT ![o] =
                   IF kv.version = 0 THEN [pc |-> "returned", id |-> id, result |-> "false"]
                   ELSE IF ~parsed.ok THEN [pc |-> "panicked", id |-> id, result |-> "none"]
                   ELSE IF parsed.data.status # "Error"
                   THEN [pc |-> "returned", id |-> id, result |-> "false"]
                   ELSE [pc |-> "read", id |-> id, result |-> "none", kv |-> kv,
                         task_data |-> parsed.data]]
  /\ UNCHANGED <<tasksKV, queueKV, claimsKV, interruptKV, monitor, worker>>
  /\ UNCHANGED <<mainVars, liveVars, ringVars, etcdVars>>

\* resume whose put compares no version
ToolTxn_unguarded(o) ==
  /\ tool[o].pc = "read"
  /\ PutValue(monitor, tool[o].id,
              to_vec([tool[o].task_data EXCEPT
                        !.status = "Resuming",
                        !.other_fields = Remove(@, "error")]))
  /\ tool' = [tool EXCEPT ![o] = [pc |-> "returned", id |-> tool[o].id, result |-> "true"]]
  /\ UNCHANGED <<queueKV, claimsKV, interruptKV, worker, budget>>
  /\ UNCHANGED <<mainVars, liveVars, ringVars, etcdVars>>

\* resume of the operator o, its transaction: status Resuming,
\* other_fields.remove("error"), serialize, put if the record is at the version
\* that was read; the result is whether the transaction succeeded.
ToolTxn(o) ==
  /\ tool[o].pc = "read"
  /\ PutIfVersion(monitor, tool[o].kv,
                  to_vec([tool[o].task_data EXCEPT
                            !.status = "Resuming",
                            !.other_fields = Remove(@, "error")]))
  /\ tool' = [tool EXCEPT ![o] =
                [pc |-> "returned", id |-> tool[o].id,
                 result |-> IF tasksKV[tool[o].id].version = tool[o].kv.version
                            THEN "true" ELSE "false"]]
  /\ UNCHANGED <<queueKV, claimsKV, interruptKV, worker, budget>>
  /\ UNCHANGED <<mainVars, liveVars, ringVars, etcdVars>>

\* the tasks whose queue entries the workers of this model take
Served == {"c1", "p"}

\* ------------------------------------------------------------------- Next
\* the steps of clients, monitor and workers while etcd cancels no watch
DepRunNext ==
  \/ \E id \in DepTasks : \E value \in ClientValues(id) : CreateRecord(id, value)
  \/ process_existing_tasks
  \/ ScanRecord
  \/ process_task_updates
  \/ process_new_orphans
  \/ \E h \in {"task_handler", "orphan_handler"} : WakeCall(h)
  \/ \E id \in Served : WorkerClaim(id)
  \/ \E id \in DepTasks : WorkerLoad(id)
  \/ \E id \in DepTasks, thr \in BOOLEAN : WorkerStart(id, thr)
  \/ \E id \in DepTasks, thr \in BOOLEAN, slot \in {"result", "error"} :
       WorkerFinish(id, thr, slot)
  \/ \E id \in DepTasks : WorkerRelease(id)
  \/ \E id \in DepTasks : ClaimExpires(id)
  \/ OperatorInterrupt("c1")

DepNext == DepRunNext \/ WatchCanceled

DepSpec == Init /\ [][DepNext]_vars

\* main and its two watchers are scheduled: the scan is made, and each watcher
\* handles what it was sent and makes the calls of its handler.
DepFairness ==
  /\ WF_vars(process_existing_tasks)
  /\ WF_vars(ScanRecord)
  /\ WF_vars(process_task_updates)
  /\ WF_vars(process_new_orphans)
  /\ \A h \in {"task_handler", "orphan_handler"} : WF_vars(WakeCall(h))

\* the monitor at work on a store whose watches are not canceled, the workers
\* taking the queue entry of the dependency c1 only
DepWakeNext ==
  \/ \E id \in DepTasks : \E value \in ClientValues(id) : CreateRecord(id, value)
  \/ process_existing_tasks
  \/ ScanRecord
  \/ process_task_updates
  \/ process_new_orphans
  \/ \E h \in {"task_handler", "orphan_handler"} : WakeCall(h)
  \/ WorkerClaim("c1")
  \/ WorkerLoad("c1")
  \/ \E thr \in BOOLEAN : WorkerStart("c1", thr)
  \/ \E thr \in BOOLEAN, slot \in {"result", "error"} : WorkerFinish("c1", thr, slot)
  \/ WorkerRelease("c1")
  \/ ClaimExpires("c1")

DepFairSpec == Init /\ [][DepWakeNext]_vars /\ DepFairness

\* ------------------------------------------------------------ RecordSpec
\* The documents of the clients of RecordSpec: p waits for c1;
\* c1 is created Pending, or Running without a claim, or as an Error record with
\* members the code does not know, or with a status that is no TaskStatus, or as
\* text that is no JSON, or as bytes that are no UTF-8.
RecordValues(id) ==
  CASE id = "p" ->
         {Json([status |-> Str("waiting"), waiting |-> Arr(<<"c1">>), children |-> Null,
                note |-> Str("n")])}
    [] id = "c1" ->
         {Json([status |-> Str("pending"), parent |-> Str("p"), init |-> Str("i0")]),
          Json([status |-> Str("running"), children |-> Null, progress |-> Str("p1")]),
          Json([status |-> Str("error"), error |-> Str("boom"), parent |-> Null,
                init |-> Str("i0")]),
          Json([status |-> Str("bogus"), init |-> Str("i0")]),
          Text("{oops"),
          Bytes("0xFF")}

RecordTasks == {"p", "c1"}

\* An operator repairs a record that does not parse: a put of a Pending document.
RepairRecord(id) ==
  /\ tasksKV[id].version # 0
  /\ ~from_reader(tasksKV[id].value).ok
  /\ PutValue(monitor, id, Json([status |-> Str("pending"), init |-> Str("i1")]))
  /\ UNCHANGED <<queueKV, interruptKV, otherDepVars>>
  /\ UNCHANGED <<mainVars, liveVars, ringVars, etcdVars>>

\* clients, the monitor, the workers of c1 and the operators of the resume tool
RecordNext ==
  \/ \E id \in RecordTasks : \E value \in RecordValues(id) : CreateRecord(id, value)
  \/ RepairRecord("c1")
  \/ process_existing_tasks
  \/ ScanRecord
  \/ process_task_updates
  \/ process_new_orphans
  \/ \E h \in {"task_handler", "orphan_handler"} : WakeCall(h)
  \/ WorkerClaim("c1")
  \/ WorkerLoad("c1")
  \/ \E thr \in BOOLEAN : WorkerStart("c1", thr)
  \/ \E thr \in BOOLEAN, slot \in {"result", "error"} : WorkerFinish("c1", thr, slot)
  \/ WorkerRelease("c1")
  \/ ClaimExpires("c1")
  \/ \E o \in Operators : ToolRead(o, "c1")
  \/ \E o \in Operators : ToolTxn(o)

RecordSpec == Init /\ [][RecordNext]_vars

\* -------------------------------------------------------------- properties
\* the step is a put of tasks/<id> by the monitor: the record existed, and no
\* worker and no run of the resume tool took the step
MonitorWrites(id) ==
  /\ tasksKV'[id] # tasksKV[id]
  /\ tasksKV[id].version # 0
  /\ UNCHANGED <<worker, tool>>

\* the monitor is about to call try_enqueue_task with a KeyValue of id that is at
\* the version of the record and has the given status
MonitorAbout(id, status) ==
  /\ monitor.phase = "watch"
  /\ \E q \in {"events", "orphans"} :
       /\ monitor[q] # <<>>
       /\ monitor[IF q = "events" THEN "task_handler" ELSE "orphan_handler"].pc = "idle"
       /\ Head(monitor[q]).key = id
       /\ Head(monitor[q]).version = tasksKV[id].version
       /\ from_reader(Head(monitor[q]).value).ok
       /\ from_reader(Head(monitor[q]).value).data.status = status

\* C21: no step of the monitor puts a task record while the claim of that task
\* exists: resume-unclaimed applies only when the version of the claim is 0, and
\* the wake-up of a Waiting task and the rewrite of a record that does not parse
\* never meet a claim.
C21_MonitorWritesUnclaimedOnly ==
  [][\A id \in DepTasks : MonitorWrites(id) => id \notin claimsKV]_vars

\* C21: the monitor is about to run resume-unclaimed on the current record of a
\* task that is Running under a claim.
C21_ResumeUnclaimedMeetsClaim ==
  \E id \in DepTasks : id \in claimsKV /\ MonitorAbout(id, "Running")

\* the record of id parses and has the given status
HasStatus(id, status) ==
  /\ tasksKV[id].version # 0
  /\ from_reader(tasksKV[id].value).ok
  /\ from_reader(tasksKV[id].value).data.status = status

\* the record of child is final and names a parent that is Waiting with child in
\* its waiting list
WaitedFor(parent, child) ==
  /\ FinalNow(child)
  /\ from_reader(tasksKV[child].value).data.parent = Some(parent)
  /\ HasStatus(parent, "Waiting")
  /\ from_reader(tasksKV[parent].value).data.waiting.some
  /\ Contains(from_reader(tasksKV[parent].value).data.waiting.v, child)

\* the step is the wake-up transaction of the handler h, and it puts the record
WakeUpPuts(h) ==
  /\ monitor[h].pc = "wake"
  /\ monitor'[h].pc = "idle"
  /\ tasksKV'[monitor[h].kv.key] # tasksKV[monitor[h].kv.key]

\* C22: once a child that names the parent p is final while p is Waiting with
\* the child in its waiting list, p gets its queue entry; and the wake-up puts p
\* only at the version that was read (after a change of p it puts nothing), as
\* the document that was read with status Resuming.
C22_ParentWokenAndEnqueued ==
  /\ \A child \in DepTasks \ {"p"} : WaitedFor("p", child) ~> ("p" \in queueKV)
  /\ [][\A h \in {"task_handler", "orphan_handler"} :
          WakeUpPuts(h) =>
            /\ monitor[h].kv.version = tasksKV[monitor[h].kv.key].version
            /\ HasStatus(monitor[h].kv.key, "Waiting")
            /\ tasksKV'[monitor[h].kv.key].value =
                 to_vec([monitor[h].task_data EXCEPT !.status = "Resuming"])]_vars

\* C22: wake_up_parent has read the Waiting parent after its child became
\* final, the parent has changed since, and the wake-up transaction is to come.
C22_WakeUpAfterParentChanged ==
  \E h \in {"task_handler", "orphan_handler"} :
    /\ monitor[h].pc = "wake"
    /\ monitor[h].kv.version # tasksKV[monitor[h].kv.key].version
    /\ \E child \in DepTasks :
         /\ FinalNow(child)
         /\ Contains(monitor[h].task_data.waiting.v, child)

\* the step is the get of the dependencies by try_resume_waiting of the handler
\* h, after which it calls wake_up_waiting_task
DecidesToWake(h) ==
  /\ monitor[h].pc = "idle"
  /\ monitor'[h].pc = "wake"
  /\ monitor'[h].by = "try_resume_waiting"

\* C23: try_resume_waiting goes on to wake a Waiting task only if every task
\* named in its waiting list is final when it reads them; if one of them is not,
\* no wake-up follows and the record is left as it is.
C23_WakesOnlyWhenAllFinal ==
  [][\A h \in {"task_handler", "orphan_handler"} :
       DecidesToWake(h) =>
         \A i \in 1..Len(monitor'[h].task_data.waiting.v) :
           FinalNow(monitor'[h].task_data.waiting.v[i])]_vars

\* C23: try_resume_waiting is about to wake a task whose waiting list names a
\* dependency that has a record and is not final.
C23_WakesWithDependencyOpen ==
  \E h \in {"task_handler", "orphan_handler"} :
    /\ monitor[h].pc = "wake"
    /\ monitor[h].by = "try_resume_waiting"
    /\ monitor[h].kv.version = tasksKV[monitor[h].kv.key].version
    /\ \E i \in 1..Len(monitor[h].task_data.waiting.v) :
         /\ tasksKV[monitor[h].task_data.waiting.v[i]].version # 0
         /\ ~FinalNow(monitor[h].task_data.waiting.v[i])

\* the step is try_enqueue_task of the handler h on the record at the head of the
\* monitor's list q, a Waiting record with a waiting list that names some task
HandlesWaiting(q, h) ==
  /\ monitor[q] # <<>>
  /\ monitor[h].pc = "idle"
  /\ monitor'[q] = Tail(monitor[q])
  /\ monitor'.phase # "exited"
  /\ LET parsed == from_reader(Head(monitor[q]).value)
     IN  /\ parsed.ok
         /\ parsed.data.status = "Waiting"
         /\ parsed.data.waiting.some
         /\ parsed.data.waiting.v # <<>>

WaitingListOf(kv) == from_reader(kv.value).data.waiting.v

\* C23: when the monitor handles a Waiting record whose waiting list names some
\* task, it goes on to wake the task exactly if at least one named task has a
\* record that is final when it reads them; in the other case no wake-up follows;
\* the handling itself leaves every record as it is.
C23_WakesWhenSomeFinal ==
  [][\A qh \in {<<"scan", "task_handler">>, <<"events", "task_handler">>,
                <<"orphans", "orphan_handler">>} :
       HandlesWaiting(qh[1], qh[2]) =>
         /\ tasksKV' = tasksKV
         /\ (monitor'[qh[2]].pc = "wake") <=>
              (\E i \in 1..Len(WaitingListOf(Head(monitor[qh[1]]))) :
                 FinalNow(WaitingListOf(Head(monitor[qh[1]]))[i]))
         /\ monitor'[qh[2]].pc = "wake" =>
              /\ monitor'[qh[2]].kv = Head(monitor[qh[1]])
              /\ monitor'[qh[2]].by = "try_resume_waiting"]_vars

\* C25: when a watch of the monitor is canceled the monitor goes back to
\* process_existing_tasks, a new scan of all records, and watches again: the
\* only step that takes it out of its watch loops leads to the start of the scan.
C25_CanceledWatchRestartsScan ==
  [][(monitor.phase = "watch" /\ monitor'.phase # "watch")
       => monitor'.phase = "start"]_vars

\* C25: the monitor has returned from main after a canceled watch, and a Pending
\* record that nobody has enqueued or claimed is in the store.
C25_ExitedWithPendingUnqueued ==
  /\ monitor.phase = "exited"
  /\ \E id \in DepTasks :
       /\ HasStatus(id, "Pending")
       /\ id \notin queueKV
       /\ id \notin claimsKV

\* the handler of the monitor's list q
HandlerOf(q) == IF q = "orphans" THEN "orphan_handler" ELSE "task_handler"

\* the step is try_enqueue_task on the KeyValue at the head of the monitor's
\* list q: the head leaves the list (a put of the step adds its event at the end
\* of the events)
Handles(q) ==
  /\ monitor[q] # <<>>
  /\ monitor[HandlerOf(q)].pc = "idle"
  /\ monitor.phase = (IF q = "scan" THEN "scan" ELSE "watch")
  /\ monitor'[q] # monitor[q]
  /\ Len(monitor'[q]) \in {Len(monitor[q]) - 1, Len(monitor[q])}
  /\ SubSeq(monitor'[q], 1, Len(monitor[q]) - 1) = Tail(monitor[q])

MonitorLists == {"scan", "events", "orphans"}

\* the record of id exists and does not parse
Unparsable(id) == tasksKV[id].version # 0 /\ ~from_reader(tasksKV[id].value).ok

\* the step handles a KeyValue that does not parse: no queue entry is made, and
\* the record is put as {status error, error: diagnostic, original} if it is at
\* the version of the KeyValue, otherwise no record changes
ReplacesUnparsable(q, original) ==
  LET kv == Head(monitor[q])
  IN  (Handles(q) /\ ~from_reader(kv.value).ok) =>
        /\ queueKV' = queueKV
        /\ IF tasksKV[kv.key].version = kv.version
           THEN tasksKV' = [tasksKV EXCEPT ![kv.key] =
                  [value |-> Json([status |-> Str("error"),
                                   error |-> Str("unparsable task: "
                                                 \o from_reader(kv.value).e),
                                   original |-> Str(original)]),
                   version |-> kv.version + 1]]
           ELSE tasksKV' = tasksKV

\* C24 as stated: a record that does not parse has no queue entry and no claim,
\* and the monitor replaces it, if it is still at the version read (otherwise it
\* writes nothing), by the document with status error, the parse diagnostic and,
\* as original, the bytes of the record.
C24_ReplacedKeepingOriginalBytes ==
  /\ [](\A id \in DepTasks : Unparsable(id) => id \notin queueKV /\ id \notin claimsKV)
  /\ [][\A q \in MonitorLists : ReplacesUnparsable(q, Head(monitor[q]).value)]_vars

\* C24: a record that does not parse has no queue entry and no claim, and the
\* monitor replaces it, if it is still at the version read (otherwise it writes
\* nothing), by the document with status error, the parse diagnostic and, as
\* original, the text of the record in which bytes that are no UTF-8 are
\* replaced by U+FFFD.
C24_ReplacedKeepingLossyText ==
  /\ [](\A id \in DepTasks : Unparsable(id) => id \notin queueKV /\ id \notin claimsKV)
  /\ [][\A q \in MonitorLists :
          ReplacesUnparsable(q, IF Head(monitor[q]).value.kind = "bytes"
                                THEN Text("U+FFFD")
                                ELSE Head(monitor[q]).value)]_vars

\* C24: the monitor is about to handle a KeyValue of bytes that are no UTF-8
\* while the record has been repaired since.
C24_RepairedBeforeHandled ==
  \E q \in MonitorLists :
    /\ monitor[q] # <<>>
    /\ monitor[HandlerOf(q)].pc = "idle"
    /\ monitor.phase = (IF q = "scan" THEN "scan" ELSE "watch")
    /\ Head(monitor[q]).value.kind = "bytes"
    /\ tasksKV[Head(monitor[q]).key].version # Head(monitor[q]).version

\* C24: the record has been replaced by the error document of bytes that are no
\* UTF-8.
C24_BytesReplaced ==
  \E id \in DepTasks :
    /\ tasksKV[id].value.kind = "json"
    /\ "original" \in DOMAIN tasksKV[id].value.doc
    /\ tasksKV[id].value.doc["original"] = Str(Text("U+FFFD"))

\* the fields of the record value: the TaskData it deserializes to
FieldsOf(value) == from_reader(value).data

\* the step is one of the resume tool run by the operator o
ToolSteps(o) == tool'[o] # tool[o]

WellFormed(id) == tasksKV[id].version # 0 /\ from_reader(tasksKV[id].value).ok

\* the members an Option field of TaskData is read from
OptionMembers == {"parent", "children", "waiting"}

\* the document without its Option members that are null
WithoutNulls(doc) ==
  [k \in {m \in DOMAIN doc : ~(m \in OptionMembers /\ doc[m] = Null)} |-> doc[k]]

\* the members that the step's read-modify-write of a record is defined to
\* change: the worker sets the status and the result or error slot, the resume
\* tool sets the status and removes error, the monitor sets the status
ChangedMembers ==
  IF worker' # worker THEN {"status", "result", "error"}
  ELSE IF tool' # tool THEN {"status", "error"}
  ELSE {"status"}

\* the step is a put by the worker, the monitor or the resume tool on a record of
\* id that deserializes
ReadModifyWrite(id) ==
  /\ WellFormed(id)
  /\ tasksKV'[id] # tasksKV[id]

\* the documents old and new have the same members with the same values, the
\* members of changed aside
SameBut(old, new, changed) ==
  /\ DOMAIN old \ changed = DOMAIN new \ changed
  /\ \A k \in DOMAIN old \ changed : new[k] = old[k]

\* C27 as stated: a record that deserializes is serialized to the document it
\* was read from, and every put of worker, monitor and resume tool on such a
\* record keeps every member that the operation is not defined to change.
C27_RoundTripIsIdentity ==
  /\ [](\A id \in DepTasks :
          WellFormed(id) => to_vec(FieldsOf(tasksKV[id].value)) = tasksKV[id].value)
  /\ [][\A id \in DepTasks :
          ReadModifyWrite(id) =>
            SameBut(tasksKV[id].value.doc, tasksKV'[id].value.doc, ChangedMembers)]_vars

\* C27: a record that deserializes is serialized to the document it was read
\* from without its parent, children and waiting members that are null, and
\* every put of worker, monitor and resume tool on such a record keeps every
\* other member that the operation is not defined to change, the members
\* unknown to TaskData among them.
C27_RoundTripDropsNullOptions ==
  /\ [](\A id \in DepTasks :
          WellFormed(id) =>
            to_vec(FieldsOf(tasksKV[id].value)) = Json(WithoutNulls(tasksKV[id].value.doc)))
  /\ [][\A id \in DepTasks :
          ReadModifyWrite(id) =>
            SameBut(WithoutNulls(tasksKV[id].value.doc), tasksKV'[id].value.doc,
                    ChangedMembers)]_vars

\* C27: resume-unclaimed has rewritten the record that a client created as
\* {status running, children null, progress p1}.
C27_RewrittenWithoutNullMember ==
  /\ tasksKV["c1"].version = 2
  /\ tasksKV["c1"].value = Json([status |-> Str("resuming"), progress |-> Str("p1")])

\* the transitions of the list of legal transitions
ListedTransitions ==
  {<<"Pending", "Running">>, <<"Resuming", "Running">>,
   <<"Running", "Complete">>, <<"Running", "Error">>, <<"Running", "Paused">>,
   <<"Running", "Canceled">>, <<"Running", "Waiting">>,
   <<"Waiting", "Resuming">>, <<"Error", "Resuming">>, <<"Paused", "Resuming">>}

\* the step changes the status of the record of id, which existed
StatusChanges(id) ==
  /\ rec[id].status # "Absent"
  /\ rec'[id].status # rec[id].status

\* C30 as stated: every change of the status of a stored record is one of the
\* listed transitions.
C30_OnlyListedTransitions ==
  [][\A id \in Tasks :
       StatusChanges(id) => <<rec[id].status, rec'[id].status>> \in ListedTransitions]_vars

\* C30: every change of the status of a stored record is one of the listed
\* transitions or Running to Resuming, and Running to Resuming is a step of the
\* monitor (no worker and no run of the resume tool takes it) on a task without
\* a claim.
C30_ListedOrOrphanRecovery ==
  [][\A id \in Tasks :
       StatusChanges(id) =>
         \/ <<rec[id].status, rec'[id].status>> \in ListedTransitions
         \/ /\ <<rec[id].status, rec'[id].status>> = <<"Running", "Resuming">>
            /\ claim[id] = NoClaim
            /\ UNCHANGED <<workerVars, opVars>>]_vars

\* C30: the monitor has made a Running record Resuming: the record is Resuming
\* and holds no error, and the resume tool has not run.
C30_ResumedByMonitor ==
  \E id \in Tasks : rec[id].status = "Resuming" /\ nResumes = 0

\* =========================================================================
\* PriorityQueueRing (parallel-hnsw): a queue of fixed capacity over two arrays,
\* ids and priorities, built by from_slices and changed by insert and merge.
\* Indices are counted from 0 as in the source; the arrays are sequences, so the
\* element at index i is data[i + 1].
\* =========================================================================
\* the length of the arrays, the ids and the priorities of the entries
RingCapacity == 3
MaxId == 4
MaxPriority == 3
\* the longest argument of merge_pairs
MaxPairs == 2

Ids == 1..MaxId
Priorities == 1..MaxPriority
\* f32::MAX, the priority of an empty slot, and NodeId(!0), its id
F32_MAX == MaxPriority + 1
EmptyId == MaxId + 1

absolute_index(head, priorities, relative_idx) ==
  IF relative_idx < Len(priorities) - head
  THEN head + relative_idx
  ELSE relative_idx - (Len(priorities) - head)

relative_index(head, priorities, absolute_idx) ==
  IF absolute_idx < head
  THEN absolute_idx + (Len(priorities) - head)
  ELSE absolute_idx - head

\* the closure of partition_point for Comparison::Eq and Comparison::Lt
Before(cmp, d, point) == IF cmp = "Eq" THEN d # point ELSE d < point

\* slice::partition_point on a slice that is partitioned: the number of its
\* leading elements for which the closure holds
slice_partition_point(s, cmp, point) ==
  CHOOSE k \in 0..Len(s) :
    /\ \A i \in 1..k : Before(cmp, s[i], point)
    /\ k = Len(s) \/ ~Before(cmp, s[k + 1], point)

partition_point(head, priorities, point, cmp) ==
  LET first_half_point == slice_partition_point(SubSeq(priorities, 1, head), cmp, point)
  IN  IF first_half_point < head
      THEN relative_index(head, priorities, first_half_point)
      ELSE relative_index(head, priorities,
             head + slice_partition_point(SubSeq(priorities, head + 1, Len(priorities)),
                                          cmp, point))

\* from_slices: the length is the number of leading priorities that are not
\* f32::MAX
from_slices(data, priorities) ==
  [head |-> 0,
   length |-> slice_partition_point(priorities, "Eq", F32_MAX),
   data |-> data,
   priorities |-> priorities]

\* the while loop of insert_at from idx on: over the entries with the priority
\* of the new entry and an id up to elt.  how = "return": insert_at returns idx
\* at once (elt is there, or the end of the arrays is reached); how = "insert":
\* the entry goes to idx.
RECURSIVE WalkEqual(_, _, _, _)
WalkEqual(q, idx, elt, priority) ==
  LET aidx == absolute_index(q.head, q.priorities, idx)
  IN  IF q.priorities[aidx + 1] = priority /\ q.data[aidx + 1] <= elt
      THEN IF q.data[aidx + 1] = elt THEN [idx |-> idx, how |-> "return"]
           ELSE IF idx + 1 = Len(q.priorities) THEN [idx |-> idx + 1, how |-> "return"]
           ELSE WalkEqual(q, idx + 1, elt, priority)
      ELSE [idx |-> idx, how |-> "insert"]

\* the for loop of insert_at, i going down from swap_start to idx + 1: entry
\* i - 1 is copied to i, with i = priorities.len() left out; an index outside the
\* arrays is a panic
RECURSIVE ShiftUp(_, _, _)
ShiftUp(q, i, idx) ==
  IF i <= idx \/ q.panic THEN q
  ELSE IF i = Len(q.priorities) THEN ShiftUp(q, i - 1, idx)
  ELSE LET ai_minus_1 == absolute_index(q.head, q.priorities, i - 1)
           ai == absolute_index(q.head, q.priorities, i)
       IN  IF ai_minus_1 >= Len(q.data) \/ ai >= Len(q.data)
           THEN [q EXCEPT !.panic = TRUE]
           ELSE ShiftUp([q EXCEPT !.data[ai + 1] = q.data[ai_minus_1 + 1],
                                  !.priorities[ai + 1] = q.priorities[ai_minus_1 + 1]],
                        i - 1, idx)

\* what a call on the queue q leaves: the queue, the value returned, and whether
\* the call has panicked
Returns(q, value) == [q |-> q, value |-> value, panic |-> FALSE]
Panics(q) == [q |-> q, value |-> 0, panic |-> TRUE]

\* the end of insert_at: the length grows if idx is below it
CountAndReturn(q, idx) ==
  Returns(IF idx < q.length THEN [q EXCEPT !.length = @ + 1] ELSE q, idx)

\* insert_at that puts the entry at idx without the walk over the entries of its
\* priority
insert_at_no_walk(q, idx, elt, priority) ==
  LET aidx == absolute_index(q.head, q.priorities, idx)
  IN  IF idx < Len(q.data) /\ q.data[aidx + 1] # elt
      THEN LET shifted == ShiftUp([head |-> q.head, data |-> q.data,
                                   priorities |-> q.priorities, panic |-> FALSE],
                                  q.length, idx)
           IN  IF shifted.panic THEN Panics(q)
               ELSE CountAndReturn([q EXCEPT !.data = [shifted.data EXCEPT ![aidx + 1] = elt],
                                             !.priorities = [shifted.priorities EXCEPT
                                                               ![aidx + 1] = priority]],
                                   idx)
      ELSE CountAndReturn(q, idx)

\* insert_at: unless idx is past the arrays or the entry at idx has the id elt,
\* walk over the entries of the same priority (returning if elt is met or the
\* arrays end), shift the entries from the stopping point up to the length, and
\* write the entry; then count it
insert_at(q, idx, elt, priority) ==
  LET aidx == absolute_index(q.head, q.priorities, idx)
  IN  IF idx < Len(q.data) /\ q.data[aidx + 1] # elt
      THEN LET walk == WalkEqual(q, idx, elt, priority)
               at == absolute_index(q.head, q.priorities, walk.idx)
               shifted == ShiftUp([head |-> q.head, data |-> q.data,
                                   priorities |-> q.priorities, panic |-> FALSE],
                                  q.length, walk.idx)
           IN  IF walk.how = "return" THEN Returns(q, walk.idx)
               ELSE IF shifted.panic THEN Panics(q)
               ELSE CountAndReturn([q EXCEPT !.data = [shifted.data EXCEPT ![at + 1] = elt],
                                             !.priorities = [shifted.priorities EXCEPT
                                                               ![at + 1] = priority]],
                                   walk.idx)
      ELSE CountAndReturn(q, idx)

\* insert: insert_at at the first entry whose priority is not below the new one
insert(q, elt, priority) ==
  insert_at(q, partition_point(q.head, q.priorities, priority, "Lt"), elt, priority)

\* the outcomes of a binary search: Ok(i), Err(i), or a panic (a slice whose
\* start is past its end)
Ok(i) == [ok |-> TRUE, i |-> i, panic |-> FALSE]
Err(i) == [ok |-> FALSE, i |-> i, panic |-> FALSE]
SlicePanics == [ok |-> FALSE, i |-> 0, panic |-> TRUE]

Sorted(s) == \A i \in 1..(Len(s) - 1) : s[i] <= s[i + 1]

\* slice::binary_search_by with the order of the priorities: on a sorted slice
\* Ok of any index that holds x, or Err of the index where x would go; on a
\* slice that is not sorted the result is unspecified
binary_search_by(s, x) ==
  LET found == {Ok(j - 1) : j \in {k \in 1..Len(s) : s[k] = x}}
  IN  IF Sorted(s)
      THEN IF found # {} THEN found
           ELSE {Err(Cardinality({k \in 1..Len(s) : s[k] < x}))}
      ELSE found \cup {Err(k) : k \in 0..Len(s)}

\* binary_search_from: the search in the priorities from the relative index idx
\* on; the index found is counted from the start of the slice that was searched
binary_search_from(q, idx, priority) ==
  LET from == absolute_index(q.head, q.priorities, idx)
      Relative(rs) == {[r EXCEPT !.i = relative_index(q.head, q.priorities, r.i)] : r \in rs}
      in_first_part == Relative(binary_search_by(SubSeq(q.priorities, 1, q.head), priority))
  IN  IF idx > q.length - q.head
      THEN IF from > q.head THEN {SlicePanics}
           ELSE Relative(binary_search_by(SubSeq(q.priorities, from + 1, q.head), priority))
      ELSE IF from > Len(q.priorities) THEN {SlicePanics}
      ELSE UNION {IF ~r.ok /\ r.i = Len(q.priorities)
                  THEN in_first_part
                  ELSE Relative({r}) :
                  r \in binary_search_by(SubSeq(q.priorities, from + 1, Len(q.priorities)),
                                         priority)}

\* the items that iter yields: the entries from the head on, up to the first
\* empty id
RECURSIVE IterFrom(_, _)
IterFrom(q, position) ==
  IF position = Len(q.priorities) THEN <<>>
  ELSE LET aidx == absolute_index(q.head, q.priorities, position)
       IN  IF q.data[aidx + 1] = EmptyId THEN <<>>
           ELSE <<[id |-> q.data[aidx + 1], priority |-> q.priorities[aidx + 1]]>>
                \o IterFrom(q, position + 1)

iter(q) == IterFrom(q, 0)

\* merge, the walk to the beginning of a match: -1 stands for an index outside
\* the arrays (a panic)
RECURSIVE WalkToStart(_, _, _)
WalkToStart(q, start_idx, other_distance) ==
  IF start_idx = 0 THEN 0
  ELSE LET aidx == absolute_index(q.head, q.priorities, start_idx - 1)
       IN  IF aidx >= Len(q.priorities) THEN -1
           ELSE IF q.priorities[aidx + 1] # other_distance THEN start_idx
           ELSE WalkToStart(q, start_idx - 1, other_distance)

\* what merge leaves: the queue, the value of did_something, and whether it has
\* panicked
MergeReturns(q, did_something) == [q |-> q, did_something |-> did_something, panic |-> FALSE]
MergePanics(q) == [q |-> q, did_something |-> FALSE, panic |-> TRUE]

\* the loop of merge from the item other_idx (counted from 1) of the items of
\* the other queue on: the set of the outcomes it can have
RECURSIVE MergeFrom(_, _, _, _, _)
MergeFrom(q, items, other_idx, last_idx, did_something) ==
  IF other_idx > Len(items) \/ last_idx > q.length
  THEN {MergeReturns(q, did_something)}
  ELSE LET elt == items[other_idx].id
           other_distance == items[other_idx].priority
           After(i) ==
             IF i.panic THEN {MergePanics(q)}
             ELSE IF i.ok
             THEN LET start_idx == WalkToStart(q, i.i + last_idx, other_distance)
                      at == insert_at(q, start_idx, elt, other_distance)
                  IN  IF start_idx = -1 \/ at.panic THEN {MergePanics(q)}
                      ELSE MergeFrom(at.q, items, other_idx + 1, at.value,
                                     did_something \/ at.value # Len(q.data))
             ELSE IF i.i >= Len(q.data) THEN {MergeReturns(q, did_something)}
             ELSE LET at == insert_at(q, i.i + last_idx, elt, other_distance)
                  IN  IF at.panic THEN {MergePanics(q)}
                      ELSE MergeFrom(at.q, items, other_idx + 1, at.value, TRUE)
       IN  UNION {After(i) : i \in binary_search_from(q, last_idx, other_distance)}

\* merge: the outcomes of merging the other queue into q
merge(q, other_priority_queue) == MergeFrom(q, iter(other_priority_queue), 1, 0, FALSE)

\* merge_pairs: the pairs before the first one with priority f32::MAX, as a
\* queue, merged
merge_pairs(q, other) ==
  LET n == slice_partition_point([i \in 1..Len(other) |-> other[i].priority], "Eq", F32_MAX)
  IN  merge(q, [head |-> 0, length |-> n,
                data |-> [i \in 1..n |-> other[i].id],
                priorities |-> [i \in 1..n |-> other[i].priority]])

\* ----------------------------------------------------------------- RingSpec
\* the arrays from_slices is called with: priorities ascending, the slots from
\* some index on empty (id NodeId(!0), priority f32::MAX)
RingArrays(capacity) ==
  {a \in [data : [1..capacity -> Ids \cup {EmptyId}],
          priorities : [1..capacity -> Priorities \cup {F32_MAX}]] :
     /\ Sorted(a.priorities)
     /\ \A i \in 1..capacity : (a.data[i] = EmptyId) <=> (a.priorities[i] = F32_MAX)}

\* the arguments of merge_pairs: up to MaxPairs pairs with different ids,
\* priorities ascending
PairLists ==
  UNION {{l \in [1..n -> [id : Ids, priority : Priorities]] :
            /\ \A i \in 1..(n - 1) : l[i].priority <= l[i + 1].priority
            /\ \A i, j \in 1..n : l[i].id = l[j].id => i = j} :
         n \in 1..MaxPairs}

FromSlices ==
  /\ pq_call.op = "none"
  /\ \E a \in RingArrays(RingCapacity) :
       /\ pq' = from_slices(a.data, a.priorities)
       /\ pq_before' = a
  /\ pq_call' = [op |-> "from_slices"]
  /\ UNCHANGED <<mainVars, liveVars, depVars, etcdVars>>

Insert ==
  /\ pq_call.op = "from_slices"
  /\ \E elt \in Ids, priority \in Priorities :
       LET out == insert(pq, elt, priority)
       IN  /\ pq' = out.q
           /\ pq_call' = [op |-> "insert", elt |-> elt, priority |-> priority,
                          idx |-> out.value, panic |-> out.panic]
  /\ UNCHANGED <<pq_before, mainVars, liveVars, depVars, etcdVars>>

Merge ==
  /\ pq_call.op = "from_slices"
  /\ \E a \in RingArrays(MaxPairs) :
       \E out \in merge(pq, from_slices(a.data, a.priorities)) :
         /\ pq' = out.q
         /\ pq_call' = [op |-> "merge", items |-> iter(from_slices(a.data, a.priorities)),
                        did_something |-> out.did_something, panic |-> out.panic]
  /\ UNCHANGED <<pq_before, mainVars, liveVars, depVars, etcdVars>>

MergePairs ==
  /\ pq_call.op = "from_slices"
  /\ \E other \in PairLists :
       \E out \in merge_pairs(pq, other) :
         /\ pq' = out.q
         /\ pq_call' = [op |-> "merge_pairs", items |-> other,
                        did_something |-> out.did_something, panic |-> out.panic]
  /\ UNCHANGED <<pq_before, mainVars, liveVars, depVars, etcdVars>>

\* a queue is built and an entry inserted
RingInsertNext == FromSlices \/ Insert

RingInsertSpec == Init /\ [][RingInsertNext]_vars

\* a queue is built and another queue or a list of pairs merged into it
RingMergeNext == FromSlices \/ Merge \/ MergePairs

RingMergeSpec == Init /\ [][RingMergeNext]_vars

\* ------------------------------------------------------- properties of the ring
\* the arrays of the queue now
RingNow == [data |-> pq.data, priorities |-> pq.priorities]

RingFull(a) == a.priorities[Len(a.priorities)] # F32_MAX

\* the arrays hold the entry
Holds(a, id, priority) ==
  \E i \in 1..Len(a.priorities) : a.data[i] = id /\ a.priorities[i] = priority

\* the arrays a with the entry put at position k (from 1) and the last slot
\* pushed off
InsertedAt(a, k, id, priority) ==
  [data |-> [i \in 1..Len(a.data) |->
               IF i < k THEN a.data[i] ELSE IF i = k THEN id ELSE a.data[i - 1]],
   priorities |-> [i \in 1..Len(a.priorities) |->
               IF i < k THEN a.priorities[i] ELSE IF i = k THEN priority
               ELSE a.priorities[i - 1]]]

\* after insert(id, priority) on the arrays before, the arrays now hold the
\* lowest entries of before and the new one, ascending: a pair that is there
\* changes nothing, as does an entry that ranks after a full queue; otherwise
\* the entry stands at a place that keeps the order and the last slot is pushed
\* off
InsertedInOrder(before, id, priority, now) ==
  IF Holds(before, id, priority) THEN now = before
  ELSE \/ /\ RingFull(before)
          /\ priority >= before.priorities[Len(before.priorities)]
          /\ now = before
       \/ \E k \in 1..Len(before.data) :
            /\ now = InsertedAt(before, k, id, priority)
            /\ Sorted(now.priorities)

\* entries of the same priority stand in the order of their ids
TiesById(a) ==
  \A i \in 1..(Len(a.data) - 1) :
    a.priorities[i] = a.priorities[i + 1] => a.data[i] <= a.data[i + 1]

\* the arrays hold the id with another priority
HoldsOtherwise(a, id, priority) ==
  \E i \in 1..Len(a.data) : a.data[i] = id /\ a.priorities[i] # priority

\* C28 as stated: insert on a queue built by from_slices leaves the capacity
\* lowest entries of the old contents and the new entry, ascending; a pair
\* already there and an entry above all entries of a full queue change nothing.
C28_InsertKeepsLowest ==
  pq_call.op = "insert" =>
    /\ ~pq_call.panic
    /\ InsertedInOrder(pq_before, pq_call.elt, pq_call.priority, RingNow)

\* C28: the same for a queue whose entries of equal priority are in the order of
\* their ids and that does not hold the new id with another priority.
C28_InsertKeepsLowestOfOrdered ==
  (/\ pq_call.op = "insert"
   /\ TiesById(pq_before)
   /\ ~HoldsOtherwise(pq_before, pq_call.elt, pq_call.priority)) =>
    /\ ~pq_call.panic
    /\ InsertedInOrder(pq_before, pq_call.elt, pq_call.priority, RingNow)
    /\ TiesById(RingNow)

\* C28: an insert into a full queue with entries of equal priority has pushed
\* the last entry off.
C28_PushedOffTheEnd ==
  /\ pq_call.op = "insert"
  /\ TiesById(pq_before)
  /\ ~HoldsOtherwise(pq_before, pq_call.elt, pq_call.priority)
  /\ RingFull(pq_before)
  /\ pq_before.priorities[1] = pq_before.priorities[2]
  /\ pq_call.priority = pq_before.priorities[1]
  /\ RingNow # pq_before
  /\ ~Holds(RingNow, pq_before.data[RingCapacity], pq_before.priorities[RingCapacity])

\* C28: insert was called with an id that the queue holds with a higher
\* priority, and has changed nothing.
C28_IdHeldWithOtherPriority ==
  /\ pq_call.op = "insert"
  /\ TiesById(pq_before)
  /\ HoldsOtherwise(pq_before, pq_call.elt, pq_call.priority)
  /\ ~Holds(pq_before, pq_call.elt, pq_call.priority)
  /\ ~RingFull(pq_before)
  /\ RingNow = pq_before

\* the entries of the arrays, as a set
EntriesOf(a) ==
  {[id |-> a.data[i], priority |-> a.priorities[i]] :
     i \in {j \in 1..Len(a.data) : a.priorities[j] # F32_MAX}}

ItemsOf(items) == {items[i] : i \in 1..Len(items)}

\* x ranks before y: by priority, then by id
RanksBefore(x, y) ==
  x.priority < y.priority \/ (x.priority = y.priority /\ x.id < y.id)

\* the arrays of the given capacity that hold the best entries of the set, in
\* the order of their ranks, and empty slots after them
BestOf(entries, capacity) ==
  LET m == IF Cardinality(entries) < capacity THEN Cardinality(entries) ELSE capacity
      best == CHOOSE s \in [1..m -> entries] :
                /\ \A i, j \in 1..m : i < j => RanksBefore(s[i], s[j])
                /\ \A e \in entries \ {s[i] : i \in 1..m} : RanksBefore(s[m], e)
  IN  [data |-> [i \in 1..capacity |-> IF i <= m THEN best[i].id ELSE EmptyId],
       priorities |-> [i \in 1..capacity |-> IF i <= m THEN best[i].priority ELSE F32_MAX]]

\* the queue before the call and the items merged into it are as merge itself
\* would leave them: ranked, no id twice, and an id has the same priority in
\* both
RankedInputs(before, items) ==
  /\ \A i \in 1..(Len(before.data) - 1) :
       before.priorities[i] # F32_MAX /\ before.priorities[i + 1] # F32_MAX =>
         RanksBefore([id |-> before.data[i], priority |-> before.priorities[i]],
                     [id |-> before.data[i + 1], priority |-> before.priorities[i + 1]])
  /\ \A i \in 1..(Len(items) - 1) : RanksBefore(items[i], items[i + 1])
  /\ \A x, y \in EntriesOf(before) \cup ItemsOf(items) :
       x.id = y.id => x.priority = y.priority

\* C29: merge and merge_pairs leave the queue holding the capacity best entries
\* of the queue and the items merged, ascending by priority, equal priorities by
\* id, none twice, and return true exactly if the arrays changed.
C29_MergeKeepsBest ==
  (/\ pq_call.op \in {"merge", "merge_pairs"}
   /\ RankedInputs(pq_before, pq_call.items)) =>
    /\ ~pq_call.panic
    /\ RingNow = BestOf(EntriesOf(pq_before) \cup ItemsOf(pq_call.items), RingCapacity)
    /\ pq_call.did_something <=> (RingNow # pq_before)

\* C29: one entry that ranks after every entry of a full queue was merged, and
\* the arrays have changed.
C29_UselessMergeChanged ==
  /\ pq_call.op \in {"merge", "merge_pairs"}
  /\ RankedInputs(pq_before, pq_call.items)
  /\ RingFull(pq_before)
  /\ Len(pq_call.items) = 1
  /\ pq_call.items[1].priority > pq_before.priorities[RingCapacity]
  /\ RingNow # pq_before

\* ------------------------------------------------- the Task operations
\* The Task operations as any holder of a Task may call them: the handle of w
\* in any status, whatever the stored record says.

\* Task::transition_to_status(from, to) on the handle of w, data being
\* Task.state with the status to: verify_status(from) panics before anything is
\* sent; then set_status, which is update_state.
transition_to_status(w, from, data, thr, okpc) ==
  IF ~verify_status(w, from)
  THEN /\ Dead(w, "panicked")
       /\ NoWrite
  ELSE LET out == update_state(w, thr)
       IN  /\ Go(w, out, okpc, data)
           /\ IF out = "ok" THEN update_state_noalive(w, data) ELSE NoWrite
           /\ IF out = "ok"
              THEN UNCHANGED <<lstate, ures>>
              ELSE /\ lstate' = [lstate EXCEPT ![w] = AbsentData]
                   /\ ures' = [ures EXCEPT ![w] = "none"]

\* what a call of the handle of w leaves alone
HandleFrame ==
  /\ UNCHANGED <<queue, interrupt, leases, mpc, todo, oppc, nResumes>>
  /\ UNCHANGED <<hpc, guard, ttl, last_renew_elapsed>>
  /\ UNCHANGED sideVars

\* the call op of the handle of w returned or panicked
Called(w, op) ==
  last_call' = [last_call EXCEPT ![w] =
                  PlainResult(op, IF pc'[w] = "panicked" THEN "panic"
                                  ELSE IF pc'[w] = "exited" THEN "LeaseExpired"
                                  ELSE "Ok")]

\* Task::start
TaskStart(w, thr) ==
  /\ pc[w] = "handle"
  /\ transition_to_status(w, "Pending", [wstate[w] EXCEPT !.status = "Running"],
                          thr, "handle")
  /\ Called(w, "start")
  /\ HandleFrame

\* Task::resume
TaskResume(w, thr) ==
  /\ pc[w] = "handle"
  /\ transition_to_status(w, "Resuming", [wstate[w] EXCEPT !.status = "Running"],
                          thr, "handle")
  /\ Called(w, "resume")
  /\ HandleFrame

\* Task::finish up to release_claim: the result slot is set before the status
\* is verified
TaskFinish(w, thr) ==
  /\ pc[w] = "handle"
  /\ transition_to_status(w, "Running",
                          [wstate[w] EXCEPT !.result = "ok", !.status = "Complete"],
                          thr, "release")
  /\ Called(w, "finish")
  /\ HandleFrame

\* Task::finish_error up to release_claim
TaskFinishError(w, thr) ==
  /\ pc[w] = "handle"
  /\ transition_to_status(w, "Running",
                          [wstate[w] EXCEPT !.error = "err", !.status = "Error"],
                          thr, "release")
  /\ Called(w, "finish_error")
  /\ HandleFrame

\* Task::alive called on the handle: the keep-alive and the read of the
\* interrupt key; it looks at no status
TaskAlive(w, thr) ==
  /\ pc[w] = "handle"
  /\ LET out == alive(w, thr)
     IN  /\ Go(w, out, "handle", wstate[w])
         /\ IF out = "ok"
            THEN UNCHANGED <<lstate, ures>>
            ELSE /\ lstate' = [lstate EXCEPT ![w] = AbsentData]
                 /\ ures' = [ures EXCEPT ![w] = "none"]
  /\ NoWrite
  /\ Called(w, "alive")
  /\ HandleFrame

\* A worker holds a Task in any status for a record in any status, its lease
\* exists or has ended, an interrupt is there or not; no monitor runs.
HandleInit ==
  \E w \in Workers, id \in Tasks, s \in TaskStatus, r \in TaskStatus,
     held \in BOOLEAN, i \in {"none", "canceled", "paused"} :
    /\ rec = [x \in Tasks |->
                IF x = id THEN TaskData(r, InitValue, "none", "none", "none")
                ELSE AbsentData]
    /\ queue = <<>>
    /\ claim = [x \in Tasks |-> IF x = id /\ held THEN w ELSE NoClaim]
    /\ interrupt = [x \in Tasks |-> IF x = id THEN i ELSE "none"]
    /\ leases = IF held THEN {w} ELSE {}
    /\ mpc = "start"
    /\ scanQ = <<>>
    /\ taskEvents = <<>>
    /\ claimEvents = <<>>
    /\ pc = [x \in Workers |-> IF x = w THEN "handle" ELSE "next"]
    /\ wid = [x \in Workers |-> IF x = w THEN id ELSE NoTask]
    /\ wstate = [x \in Workers |->
                   IF x = w THEN TaskData(s, InitValue, "none", "none", "none")
                   ELSE AbsentData]
    /\ lstate = [x \in Workers |-> AbsentData]
    /\ todo = [x \in Workers |-> <<>>]
    /\ ures = [x \in Workers |-> "none"]
    /\ oppc = "idle"
    /\ opSnap = [id |-> NoTask, current |-> FALSE]
    /\ nResumes = 0
    /\ hpc = [x \in Workers |-> "run"]
    /\ last_call = [x \in Workers |-> NoCall]
    /\ guard = [x \in Workers |-> NoGuard]
    /\ ttl = [x \in Workers |-> 0]
    /\ last_renew_elapsed = [x \in Workers |-> 0]
    /\ SideInit

HandleNext ==
  \/ \E w \in Workers, thr \in BOOLEAN : TaskStart(w, thr)
  \/ \E w \in Workers, thr \in BOOLEAN : TaskResume(w, thr)
  \/ \E w \in Workers, thr \in BOOLEAN : TaskFinish(w, thr)
  \/ \E w \in Workers, thr \in BOOLEAN : TaskFinishError(w, thr)
  \/ \E w \in Workers, thr \in BOOLEAN : TaskAlive(w, thr)
  \/ \E w \in Workers : release_claim(w)
  \/ \E l \in Workers : LeaseExpire(l)
  \/ \E id \in Tasks, reason \in {"canceled", "paused"} : WriteInterrupt(id, reason)

HandleSpec == HandleInit /\ [][HandleNext]_vars

\* the call of w panics and the store is as it was
Faults(w) == pc'[w] = "panicked" /\ UNCHANGED storeVars

\* an alive of w that gets to read an interrupt key
ConsumesInterrupt(w) ==
  /\ TaskAlive(w, FALSE)
  /\ w \in leases
  /\ interrupt[wid[w]] # "none"

\* C31: a call of start on a handle that is not Pending, of resume on one that
\* is not Resuming, of finish or finish_error on one that is not Running, and an
\* alive that reads an interrupt on a handle that is not Running, panics and
\* changes nothing in the store.
C31_WrongSourceStatePanics ==
  [][\A w \in Workers :
       /\ (\E thr \in BOOLEAN : TaskStart(w, thr)) /\ wstate[w].status # "Pending"
            => Faults(w)
       /\ (\E thr \in BOOLEAN : TaskResume(w, thr)) /\ wstate[w].status # "Resuming"
            => Faults(w)
       /\ (\E thr \in BOOLEAN : TaskFinish(w, thr)) /\ wstate[w].status # "Running"
            => Faults(w)
       /\ (\E thr \in BOOLEAN : TaskFinishError(w, thr)) /\ wstate[w].status # "Running"
            => Faults(w)
       /\ ConsumesInterrupt(w) /\ wstate[w].status # "Running"
            => Faults(w)]_vars

\* a start has panicked on a handle whose record says Pending while the handle
\* itself did not
C31_StartRefused ==
  \E w \in Workers :
    /\ pc[w] = "panicked"
    /\ last_call[w] = PlainResult("start", "panic")
    /\ \E id \in Tasks : rec[id].status = "Pending" /\ claim[id] = w /\ interrupt[id] = "none"

\* C32: a worker whose claim transaction has succeeded holds the claim of a
\* task whose record is Pending or Resuming.
C32_ClaimedIsPendingOrResuming ==
  \A w \in Workers :
    pc[w] = "claimed" => rec[wid[w]].status \in {"Pending", "Resuming"}

\* process_queue is at its match on the status of a task it has claimed, and
\* the status is neither Pending nor Resuming
C32_FatalBranchReached ==
  \E w \in Workers :
    /\ pc[w] = "loaded"
    /\ wstate[w].status \notin {"Pending", "Resuming"}

\* Task::set_progress is called in this step: by the runtime for the value
\* initialize returned, or by the user code through its TaskLiveness
SetProgressCalled(w) ==
  \/ \E thr \in BOOLEAN, p \in Progress :
       pc[w] = "init_done" /\ ures[w] = "ok" /\ AfterInitialize(w, thr, p)
  \/ \E thr \in BOOLEAN, p \in Progress : UserSetProgress(w, thr, p)

\* the records before and after the step differ in the progress slot of id at most
OnlyProgressChanged(id) ==
  /\ \A x \in Tasks \ {id} : rec'[x] = rec[x]
  /\ [rec'[id] EXCEPT !.progress = rec[id].progress] = rec[id]

\* C33: a call of set_progress changes at most the progress slot of the stored
\* record of its task: status, init, result and error are as before.
C33_SetProgressKeepsOtherSlots ==
  [][\A w \in Workers : SetProgressCalled(w) => OnlyProgressChanged(wid[w])]_vars

\* a progress value is stored for a Running task whose claim its worker holds,
\* while an interrupt key of the task exists that no keep-alive has read
C33_ProgressStoredUnderInterrupt ==
  \E w \in Workers :
    /\ pc[w] = "process"
    /\ claim[wid[w]] = w
    /\ interrupt[wid[w]] # "none"
    /\ rec[wid[w]].status = "Running"
    /\ rec[wid[w]].progress \in Progress
    /\ lstate[w].progress \in Progress

\* process_queue handles what initialize returned
AfterInitializeStep(w) == \E thr \in BOOLEAN, p \in Progress : AfterInitialize(w, thr, p)

\* C34: for a task claimed as Pending, process is spawned only in the step that
\* stores the progress initialize returned; and when initialize has returned an
\* error, process_queue records it in the error slot with status Error, goes on
\* to release the claim and does not spawn process.  The second part is stated
\* for a worker whose lease exists.
C34_ProcessAfterStoredProgressElseError ==
  [][\A w \in Workers :
       /\ pc[w] \in {"init", "init_done"} /\ pc'[w] = "process"
            => /\ ures[w] = "ok"
               /\ rec'[wid[w]].progress \in Progress
               /\ rec'[wid[w]] = wstate'[w]
       /\ pc[w] = "init_done" /\ ures[w] = "err" /\ w \in leases /\ AfterInitializeStep(w)
            => /\ rec'[wid[w]].status = "Error"
               /\ rec'[wid[w]].error = "err"
               /\ pc'[w] = "release"]_vars

\* initialize has returned an error to a worker that holds its lease, and the
\* interrupt key of the task exists
C34_InitializeFailedUnderInterrupt ==
  \E w \in Workers :
    /\ pc[w] = "init_done"
    /\ ures[w] = "err"
    /\ w \in leases
    /\ claim[wid[w]] = w
    /\ interrupt[wid[w]] # "none"

\* ================================================================ next_task
\* Queue::next_task of one worker against the queue of its service: the watch on
\* the queue prefix, the range get sorted by creation revision, the claim
\* attempts on the entries of the get, then on the PUT events of the watch. The
\* monitor puts entries, other workers claim them, and claims go away (release,
\* lease expiry).
MaxPuts == 3

othersVars == <<mainVars, liveVars, depVars, ringVars, scanVars, pulseVars, keyVars>>

\* GetOptions with_sort(SortTarget::Create, SortOrder::Descend): the entries of
\* q among ids, the youngest first
get_sorted_descend(q, ids) ==
  LET RECURSIVE pick(_)
      pick(rest) ==
        IF rest = {} THEN <<>>
        ELSE LET first == CHOOSE id \in rest : \A o \in rest : q[id] >= q[o]
             IN  <<[key |-> first, create_revision |-> q[first]]>> \o pick(rest \ {first})
  IN  pick(ids)

\* GetOptions with_prefix, with_sort(SortTarget::Create, SortOrder::Ascend): the
\* entries of q among ids in ascending order of their creation revision
get_sorted(q, ids) ==
  LET RECURSIVE pick(_)
      pick(rest) ==
        IF rest = {} THEN <<>>
        ELSE LET first == CHOOSE id \in rest : \A o \in rest : q[id] <= q[o]
             IN  <<[key |-> first, create_revision |-> q[first]]>> \o pick(rest \ {first})
  IN  pick(ids)

\* the transaction of Queue::claim_task on queue/<id> for the holder h: if
\* claims/<id> does not exist, delete the queue entry and put the claim,
\* otherwise delete the queue entry
claim_txn(s, id, h) ==
  IF s.claims[id] = "none"
  THEN [s EXCEPT !.revision = @ + 1, !.queue[id] = 0, !.claims[id] = h]
  ELSE [s EXCEPT !.revision = IF s.queue[id] # 0 THEN @ + 1 ELSE @, !.queue[id] = 0]

\* whether that transaction succeeds
claim_succeeds(s, id) == s.claims[id] = "none"

\* a change of the store by somebody else while the worker is inside next_task
Disturbed(w) == IF w.pc \in {"get", "kvs", "stream"} THEN [w EXCEPT !.quiet = FALSE] ELSE w

\* next_task, first statement: the watch on the queue prefix is created; it
\* delivers the events after the current revision
NextTaskWatch ==
  /\ nt.pc \in {"idle", "returned"}
  /\ nt' = [IdleNextTask EXCEPT !.pc = "get", !.pos = Len(qstore.log)]
  /\ UNCHANGED <<qstore, othersVars>>

\* next_task: the range get of the queue prefix
NextTaskGet ==
  /\ nt.pc = "get"
  /\ LET kvs == get_sorted(qstore.queue, {id \in QueueIds : qstore.queue[id] # 0})
     IN  nt' = [nt EXCEPT !.pc = "kvs", !.kvs = kvs, !.seen = qstore.queue,
                          !.scanned = Len(kvs)]
  /\ UNCHANGED <<qstore, othersVars>>

\* next_task: claim_task on the next entry of the get; the worker returns the
\* task if the claim succeeds, and goes on to the watch stream after the last
\* entry.  A watch created here instead of before the get:
NextTaskClaimScan_watch_late ==
  /\ nt.pc = "kvs"
  /\ IF nt.kvs = <<>>
     THEN /\ nt' = [nt EXCEPT !.pc = "stream", !.pos = Len(qstore.log)]
          /\ UNCHANGED qstore
     ELSE LET id == Head(nt.kvs).key
          IN  /\ qstore' = claim_txn(qstore, id, "me")
              /\ nt' = IF claim_succeeds(qstore, id)
                       THEN [nt EXCEPT !.pc = "returned", !.result = id, !.kvs = <<>>,
                                       !.attempts = Append(@, id)]
                       ELSE [nt EXCEPT !.kvs = Tail(@), !.attempts = Append(@, id)]
  /\ UNCHANGED othersVars

\* next_task: claim_task on the next entry of the get; the worker returns the
\* task if the claim succeeds, and goes on to the watch stream after the last
\* entry
NextTaskClaimScan ==
  /\ nt.pc = "kvs"
  /\ IF nt.kvs = <<>>
     THEN /\ nt' = [nt EXCEPT !.pc = "stream"]
          /\ UNCHANGED qstore
     ELSE LET id == Head(nt.kvs).key
          IN  /\ qstore' = claim_txn(qstore, id, "me")
              /\ nt' = IF claim_succeeds(qstore, id)
                       THEN [nt EXCEPT !.pc = "returned", !.result = id, !.kvs = <<>>,
                                       !.attempts = Append(@, id)]
                       ELSE [nt EXCEPT !.kvs = Tail(@), !.attempts = Append(@, id)]
  /\ UNCHANGED othersVars

\* next_task: claim_task on the key of the next PUT event of the watch
NextTaskClaimEvent ==
  /\ nt.pc = "stream"
  /\ nt.pos < Len(qstore.log)
  /\ LET id == qstore.log[nt.pos + 1]
     IN  /\ qstore' = claim_txn(qstore, id, "me")
         /\ nt' = IF claim_succeeds(qstore, id)
                  THEN [nt EXCEPT !.pc = "returned", !.result = id, !.pos = @ + 1,
                                  !.attempts = Append(@, id)]
                  ELSE [nt EXCEPT !.pos = @ + 1, !.attempts = Append(@, id)]
  /\ UNCHANGED othersVars

\* the monitor's enqueue_task: put queue/<id> if neither claims/<id> nor
\* queue/<id> exists
QueuePut(id) ==
  /\ Len(qstore.log) < MaxPuts
  /\ qstore.queue[id] = 0
  /\ qstore.claims[id] = "none"
  /\ qstore' = [qstore EXCEPT !.revision = @ + 1, !.queue[id] = qstore.revision + 1,
                              !.log = Append(@, id)]
  /\ nt' = Disturbed(nt)
  /\ UNCHANGED othersVars

\* claim_task of another worker on queue/<id>
OtherWorkerClaim(id) ==
  /\ qstore.queue[id] # 0
  /\ qstore' = claim_txn(qstore, id, "other")
  /\ nt' = Disturbed(nt)
  /\ UNCHANGED othersVars

\* claims/<id> is deleted: its holder released it or its lease expired
ClaimDeleted(id) ==
  /\ qstore.claims[id] # "none"
  /\ qstore.claims[id] = "me" => nt.pc = "returned" /\ nt.result = id
  /\ qstore' = [qstore EXCEPT !.revision = @ + 1, !.claims[id] = "none"]
  /\ nt' = Disturbed(nt)
  /\ UNCHANGED othersVars

NextTaskNext ==
  \/ NextTaskWatch
  \/ NextTaskGet
  \/ NextTaskClaimScan
  \/ NextTaskClaimEvent
  \/ \E id \in QueueIds : QueuePut(id)
  \/ \E id \in QueueIds : OtherWorkerClaim(id)
  \/ \E id \in QueueIds : ClaimDeleted(id)

NextTaskSpec == Init /\ [][NextTaskNext]_vars

\* the worker's own steps are taken: its tokio task is polled, and etcd answers
NextTaskFairness ==
  /\ WF_vars(NextTaskGet)
  /\ WF_vars(NextTaskClaimScan)
  /\ WF_vars(NextTaskClaimEvent)

NextTaskFairSpec == NextTaskSpec /\ NextTaskFairness

\* the number of entries that the get saw and that are older than id
OlderSeen(w, id) == Cardinality({o \in QueueIds : w.seen[o] # 0 /\ w.seen[o] < w.seen[id]})

\* the oldest entry that the get saw
OldestSeen(w) == CHOOSE id \in QueueIds : w.seen[id] # 0 /\ OlderSeen(w, id) = 0

\* C35: NextTask attempts the queue entries that exist at its range get in
\* ascending order of their creation revision, and with no concurrent change
\* of the store it returns the task of the oldest entry.
C35_AttemptsOldestFirst ==
  /\ \A i \in 1..Len(nt.attempts) :
       i <= nt.scanned =>
         /\ nt.seen[nt.attempts[i]] # 0
         /\ OlderSeen(nt, nt.attempts[i]) = i - 1
  /\ (nt.pc = "returned" /\ nt.quiet /\ nt.scanned > 0) => nt.result = OldestSeen(nt)

\* the worker returned the oldest of several entries, which is not the first
\* in key order
C35_OldestOfSeveralReturned ==
  /\ nt.pc = "returned"
  /\ nt.quiet
  /\ nt.scanned = 3
  /\ nt.result = "k3"
  /\ nt.seen["k3"] < nt.seen["k1"]

\* the worker is inside next_task
InNextTask == nt.pc \in {"get", "kvs", "stream"}

\* C36: NextTask misses no queue entry: whenever a queue entry exists while the
\* worker is inside the call, whether it was put before the watch, between the
\* watch and the range get, during the attempts on the entries of the get or
\* while the worker waits on the watch, the call returns a task or another
\* worker takes the entry.
C36_NoQueueEntryMissed ==
  \A id \in QueueIds :
    (InNextTask /\ qstore.queue[id] # 0) ~> (nt.pc = "returned" \/ qstore.queue[id] = 0)

\* a call that found every entry of its get taken by other workers returned
\* the task of an entry put after the get
C36_BlockedCallReturned ==
  /\ nt.pc = "returned"
  /\ nt.scanned > 0
  /\ Len(nt.attempts) > nt.scanned
  /\ nt.seen[nt.result] = 0

\* ============================================================ monitor scan
\* The monitor's main: process_existing_tasks reads the task records in pages
\* at the revision of its first get, then the two watchers start from the
\* revision that main passes them.  The store is the list of its writes: the
\* write history[i] made revision i + 1 (an empty store is at revision 1).
TaskKeys == 1..3
ClaimKeys == 1..2
PageLimit == 2
MaxRevisions == 5

exceptScanVars == <<mainVars, liveVars, depVars, ringVars, queueVars, pulseVars, keyVars>>

\* the revision of the store
Revision == Len(history) + 1

\* the task keys that exist at revision r, in key order
TasksAt(r) == {k \in TaskKeys : \E i \in 1..(r - 1) : history[i] = [kind |-> "put_task", key |-> k]}

\* whether claims/<k> exists now
ClaimExists(k) ==
  \E i \in 1..Len(history) :
    /\ history[i] = [kind |-> "put_claim", key |-> k]
    /\ \A j \in (i + 1)..Len(history) : history[j] # [kind |-> "del_claim", key |-> k]

\* key::get_increment_key: the key with a zero byte appended, the smallest key
\* after it
get_increment_key(key) == <<key, 0>>

\* whether the key tasks/<k> is at or after start_key (the tasks prefix itself,
\* or a task key with a zero byte appended)
AtOrAfter(k, start_key) == start_key = <<>> \/ k > start_key[1]

\* client.get(start_key, with_range(end_key).with_limit(LIMIT)) at revision r:
\* the first PageLimit task keys from start_key on, in key order
GetPage(start_key, r) ==
  LET RECURSIVE take(_, _)
      take(rest, n) ==
        IF rest = {} \/ n = 0 THEN <<>>
        ELSE LET first == CHOOSE k \in rest : \A o \in rest : k <= o
             IN  <<first>> \o take(rest \ {first}, n - 1)
  IN  take({k \in TasksAt(r) : AtOrAfter(k, start_key)}, PageLimit)

\* a start revision that leaves out the revision after the scan's
watch_start_skips(revision) == revision + 2

\* main: the start revision of both watchers
watch_start(revision) == revision + 1

\* process_existing_tasks: the get of the next page; the first get fixes the
\* revision of all of them
ScanGet ==
  /\ mscan.pc \in {"start", "get"}
  /\ LET r == IF mscan.revision = 0 THEN Revision ELSE mscan.revision
         kvs == GetPage(mscan.start_key, r)
     IN  mscan' = [mscan EXCEPT !.pc = "kvs", !.revision = r, !.kvs = kvs, !.len = Len(kvs),
                                !.last = IF kvs = <<>> THEN @ ELSE kvs[Len(kvs)]]
  /\ UNCHANGED <<history, exceptScanVars>>

\* process_existing_tasks: try_enqueue_task on the next record of the page
ScanHandle ==
  /\ mscan.pc = "kvs"
  /\ mscan.kvs # <<>>
  /\ mscan' = [mscan EXCEPT !.kvs = Tail(@), !.handled = Append(@, Head(mscan.kvs))]
  /\ UNCHANGED <<history, exceptScanVars>>

\* process_existing_tasks after the last record of a page: another page if this
\* one was full, otherwise main starts the watchers
ScanPageDone ==
  /\ mscan.pc = "kvs"
  /\ mscan.kvs = <<>>
  /\ mscan' = IF mscan.len = PageLimit
              THEN [mscan EXCEPT !.pc = "get", !.start_key = get_increment_key(mscan.last)]
              ELSE [mscan EXCEPT !.pc = "watch",
                                 !.task_next = watch_start(mscan.revision),
                                 !.orphan_next = watch_start(mscan.revision)]
  /\ UNCHANGED <<history, exceptScanVars>>

\* process_new_tasks: the watch of the tasks prefix reaches the next revision;
\* with the NoDelete filter it delivers the puts of task records
TaskWatchStep ==
  /\ mscan.pc = "watch"
  /\ mscan.task_next <= Revision
  /\ LET e == history[mscan.task_next - 1]
     IN  mscan' = [mscan EXCEPT
                     !.task_next = @ + 1,
                     !.task_events = IF e.kind = "put_task"
                                     THEN Append(@, [key |-> e.key,
                                                     revision |-> mscan.task_next])
                                     ELSE @]
  /\ UNCHANGED <<history, exceptScanVars>>

\* process_new_orphans: the watch of the claims prefix reaches the next
\* revision; with the NoPut filter it delivers the deletions of claims
OrphanWatchStep ==
  /\ mscan.pc = "watch"
  /\ mscan.orphan_next <= Revision
  /\ LET e == history[mscan.orphan_next - 1]
     IN  mscan' = [mscan EXCEPT
                     !.orphan_next = @ + 1,
                     !.orphan_events = IF e.kind = "del_claim"
                                       THEN Append(@, [key |-> e.key,
                                                       revision |-> mscan.orphan_next])
                                       ELSE @]
  /\ UNCHANGED <<history, exceptScanVars>>

\* a put of tasks/<k>: a client creates the task, or a worker, the monitor or
\* the resume tool rewrites its record
TaskPut(k) ==
  /\ Len(history) < MaxRevisions
  /\ history' = Append(history, [kind |-> "put_task", key |-> k])
  /\ UNCHANGED <<mscan, exceptScanVars>>

\* a worker's claim_task puts claims/<k>
ClaimPut(k) ==
  /\ Len(history) < MaxRevisions
  /\ ~ClaimExists(k)
  /\ history' = Append(history, [kind |-> "put_claim", key |-> k])
  /\ UNCHANGED <<mscan, exceptScanVars>>

\* claims/<k> is deleted: released, or its lease expired
ClaimDelete(k) ==
  /\ Len(history) < MaxRevisions
  /\ ClaimExists(k)
  /\ history' = Append(history, [kind |-> "del_claim", key |-> k])
  /\ UNCHANGED <<mscan, exceptScanVars>>

MonitorScanNext ==
  \/ ScanGet
  \/ ScanHandle
  \/ ScanPageDone
  \/ TaskWatchStep
  \/ OrphanWatchStep
  \/ \E k \in TaskKeys : TaskPut(k)
  \/ \E k \in ClaimKeys : ClaimPut(k)
  \/ \E k \in ClaimKeys : ClaimDelete(k)

MonitorScanSpec == Init /\ [][MonitorScanNext]_vars

\* how often the scan handled tasks/<k>
TimesHandled(k) == Cardinality({i \in 1..Len(mscan.handled) : mscan.handled[i] = k})

\* how often the watcher's events hold the write of revision r
TimesDelivered(events, r) == Cardinality({i \in 1..Len(events) : events[i].revision = r})

\* the writes of the kind after the scan's revision that a watcher at next has
\* passed are in its events once, with their key
DeliveredAfterScan(kind, next, events) ==
  \A r \in 2..Revision :
    (history[r - 1].kind = kind /\ r > mscan.revision /\ r < next) =>
      /\ TimesDelivered(events, r) = 1
      /\ \A i \in 1..Len(events) : events[i].revision = r => events[i].key = history[r - 1].key

\* C37: the scan handles every task record that exists at the scan's revision
\* exactly once and no other, and the watchers, started at the scan's revision
\* plus one, deliver every later put of a task record and every later deletion
\* of a claim, leaving out none between the scan and the watch.
C37_NoEventBetweenScanAndWatch ==
  /\ \A k \in TaskKeys : TimesHandled(k) <= 1
  /\ mscan.pc = "watch" =>
       /\ \A k \in TaskKeys : TimesHandled(k) = (IF k \in TasksAt(mscan.revision) THEN 1 ELSE 0)
       /\ DeliveredAfterScan("put_task", mscan.task_next, mscan.task_events)
       /\ DeliveredAfterScan("del_claim", mscan.orphan_next, mscan.orphan_events)

\* the scan took two pages, a task was created between the two gets under a key
\* of the second page, and the watchers have delivered its put and the deletion
\* of a claim made after the scan's revision
C37_PutBetweenPagesDelivered ==
  /\ mscan.pc = "watch"
  /\ Len(mscan.handled) = PageLimit
  /\ \E i \in 1..Len(mscan.task_events) :
       /\ mscan.task_events[i].key = 3
       /\ mscan.task_events[i].revision = mscan.revision + 1
       /\ TimesHandled(3) = 0
  /\ mscan.orphan_events # <<>>

\* =========================================================== pulse throttle
\* Task::alive called as often as its holder likes, with time passing: the
\* holder keeps the Task after a call that returned an error.
exceptPulseVars == <<depVars, ringVars, queueVars, scanVars, keyVars>>

\* A second passes.  etcd ends a lease whose TTL has run out before more time
\* passes.
PulseTick ==
  /\ \A w \in leases : ttl[w] > 0
  /\ ttl' = [w \in Workers |-> IF w \in leases THEN ttl[w] - 1 ELSE ttl[w]]
  /\ last_renew_elapsed' =
       [w \in Workers |->
          IF last_renew_elapsed[w] <= RENEW_DURATION
          THEN last_renew_elapsed[w] + 1
          ELSE last_renew_elapsed[w]]
  /\ since_sent' =
       [w \in Workers |->
          IF since_sent[w].sent /\ since_sent[w].ago <= RENEW_DURATION
          THEN [since_sent[w] EXCEPT !.ago = @ + 1]
          ELSE since_sent[w]]
  /\ UNCHANGED <<mainVars, hpc, last_call, guard>>
  /\ UNCHANGED exceptPulseVars

\* Task::alive on the handle of w: nothing within RENEW_DURATION of
\* last_renew; otherwise send_keep_alive, the read of the interrupt key, and
\* last_renew = now if the call gets to its end
AliveCalled(w) ==
  /\ pc[w] = "process"
  /\ LET out == alive(w, Throttled(w))
     IN  /\ AliveClocks(w, out)
         /\ last_call' = [last_call EXCEPT ![w] = CallResult("alive", w)]
  /\ since_sent' = IF Throttled(w) THEN since_sent
                   ELSE [since_sent EXCEPT ![w] = [sent |-> TRUE, ago |-> 0]]
  /\ UNCHANGED <<mainVars, hpc, guard>>
  /\ UNCHANGED exceptPulseVars

PulseNext ==
  \/ PulseTick
  \/ \E w \in Workers : AliveCalled(w)
  \/ \E w \in Workers : LiveLeaseExpire(w)
  \/ \E id \in Tasks, reason \in {"canceled", "paused"} : WriteInterrupt(id, reason)

PulseSpec == LiveInit /\ [][PulseNext]_vars

\* alive sent a keep-alive on the handle of w less than RENEW_DURATION ago
SentWithinInterval(w) == since_sent[w].sent /\ since_sent[w].ago < RENEW_DURATION

\* C38: a call of alive that is throttled changes nothing in the store and
\* renews no lease, and a call that sends a keep-alive does so only if the
\* handle's alive has sent none within the last renewal interval.
C38_OneRenewalPerInterval ==
  [][\A w \in Workers :
       AliveCalled(w) =>
         IF Throttled(w)
         THEN UNCHANGED <<storeVars, ttl, since_sent>>
         ELSE ~SentWithinInterval(w)]_vars

\* the handle's alive has just sent a keep-alive that etcd answered with a ttl
\* of 0, and the next call is not throttled
C38_SentAndNotThrottled ==
  \E w \in Workers :
    /\ pc[w] = "process"
    /\ last_call[w].op = "alive"
    /\ last_call[w].result = "LeaseExpired"
    /\ SentWithinInterval(w)
    /\ ~Throttled(w)

\* ============================================================ service keys
\* A Queue connected under a service name: the four prefixes that connect
\* builds, the get of next_task, claim_task and Task::new on an entry of it.
\* A key is the sequence of characters that follows its fixed prefix
\* (/services/queue/, /services/claims/, ...); the keys of a service in the
\* store are <service>/<id>.
ServiceNames == {<<"a">>, <<"a", "b">>, <<"b">>}
TaskNames == {<<"x">>, <<"y">>}

exceptServiceVars == <<mainVars, liveVars, depVars, ringVars, queueVars, scanVars, pulseVars>>

\* the key of the task name of the service, after the fixed prefix
ServiceKey(service, name) == service \o <<"/">> \o name

\* the keys of the service
KeysOfService(service) == {ServiceKey(service, name) : name \in TaskNames}

\* with_prefix: the key starts with the prefix
StartsWith(key, prefix) ==
  /\ Len(prefix) <= Len(key)
  /\ SubSeq(key, 1, Len(prefix)) = prefix

\* Queue::connect: format!("/services/queue/{service_name}") and the three
\* other prefixes, after their fixed parts
QueueConnect(service_name) ==
  [service_name |-> service_name,
   queue_prefix |-> service_name,
   tasks_prefix |-> service_name,
   claims_prefix |-> service_name,
   interrupt_prefix |-> service_name]

\* Queue::queue_key_to_task_id: what follows the queue prefix in the queue key
queue_key_to_task_id(q, queue_key) ==
  SubSeq(queue_key, Len(q.queue_prefix) + 1, Len(queue_key))

\* a worker connects under a service name
ServiceConnect(service_name) ==
  /\ svc.pc = "none"
  /\ svc' = [svc EXCEPT !.pc = "connected", !.service_name = service_name]
  /\ UNCHANGED <<keyq, exceptServiceVars>>

\* the monitor enqueues a task of a service
ServiceEnqueue(service, name) ==
  /\ ServiceKey(service, name) \notin svc.queue
  /\ ServiceKey(service, name) \notin svc.claims
  /\ svc' = [svc EXCEPT !.queue = @ \cup {ServiceKey(service, name)}]
  /\ UNCHANGED <<keyq, exceptServiceVars>>

\* next_task: the watch and the get of queue_prefix with_prefix
ServiceScan ==
  /\ svc.pc = "connected"
  /\ LET q == QueueConnect(svc.service_name)
     IN  svc' = [svc EXCEPT !.pc = "kvs",
                            !.kvs = {k \in svc.queue : StartsWith(k, q.queue_prefix)}]
  /\ UNCHANGED <<keyq, exceptServiceVars>>

\* next_task: claim_task on an entry of the get, and Task::new on success: the
\* queue key is deleted, the claim key is put, the task key and later the
\* interrupt key are read
ServiceClaim ==
  /\ svc.pc = "kvs"
  /\ IF svc.kvs = {}
     THEN svc' = [svc EXCEPT !.pc = "connected"]
     ELSE \E kv \in svc.kvs :
            LET q == QueueConnect(svc.service_name)
                task_id == queue_key_to_task_id(q, kv)
            IN  svc' = [svc EXCEPT
                          !.pc = "connected",
                          !.kvs = {},
                          !.queue = @ \ {q.queue_prefix \o task_id},
                          !.claims = @ \cup {q.claims_prefix \o task_id},
                          !.tasks = @ \cup {q.tasks_prefix \o task_id},
                          !.interrupts = @ \cup {q.interrupt_prefix \o task_id}]
  /\ UNCHANGED <<keyq, exceptServiceVars>>

\* the worker lets go of its claims
ServiceRelease ==
  /\ svc.pc = "connected"
  /\ svc.claims # {}
  /\ svc' = [svc EXCEPT !.claims = {}]
  /\ UNCHANGED <<keyq, exceptServiceVars>>

ServiceNext ==
  \/ \E s \in ServiceNames : ServiceConnect(s)
  \/ \E s \in ServiceNames, n \in TaskNames : ServiceEnqueue(s, n)
  \/ ServiceScan
  \/ ServiceClaim
  \/ ServiceRelease

ServiceSpec == Init /\ [][ServiceNext]_vars

\* C39: the queue entries that a worker connected under S gets and claims, and
\* the task, claim and interrupt keys that it reads and writes, are keys of
\* service S, whatever the other services are called.
C39_OnlyKeysOfOwnService ==
  svc.pc # "none" =>
    (svc.kvs \cup svc.claims \cup svc.tasks \cup svc.interrupts)
      \subseteq KeysOfService(svc.service_name)

\* a worker connected under a has put the claim of a task of service ab
C39_ClaimedTaskOfOtherService ==
  /\ svc.service_name = <<"a">>
  /\ ServiceKey(<<"a", "b">>, <<"x">>) \in svc.claims
  /\ ServiceKey(<<"a", "b">>, <<"x">>) \in svc.tasks

\* ========================================================= key_after_prefix
\* key::key_after_prefix on byte strings, and the range scan [p, end) that the
\* monitor makes with its result.  etcd orders keys bytewise.
ByteValues == {0, 1, 2, 255}
MaxPrefixLen == 2
MaxKeyLen == 3

exceptKeyVars == <<mainVars, liveVars, depVars, ringVars, queueVars, scanVars, pulseVars>>

\* the byte strings of at most n bytes
ByteStrings(n) == UNION {[1..l -> ByteValues] : l \in 0..n}

\* bytewise order of keys: a is before b
KeyLess(a, b) ==
  \/ Len(a) < Len(b) /\ SubSeq(b, 1, Len(a)) = a
  \/ \E i \in 1..Len(a) :
       /\ i <= Len(b)
       /\ SubSeq(a, 1, i - 1) = SubSeq(b, 1, i - 1)
       /\ a[i] < b[i]

\* key::key_after_prefix: from the last byte backwards, a byte of 255 becomes 0
\* and the walk goes on, any other byte is incremented and the walk ends; if
\* every byte was 255 a byte of 1 is put in front
key_after_prefix(key) ==
  LET RECURSIVE walk(_, _)
      walk(key_bytes, i) ==
        IF i = 0 THEN <<1>> \o key_bytes
        ELSE IF key_bytes[i] = 255 THEN walk([key_bytes EXCEPT ![i] = 0], i - 1)
        ELSE [key_bytes EXCEPT ![i] = @ + 1]
  IN  walk(key, Len(key))

\* a caller has a prefix, and the store holds a key
ChoosePrefix(p, k) ==
  /\ keyq.pc = "none"
  /\ keyq' = [keyq EXCEPT !.pc = "chosen", !.prefix = p, !.key = k]
  /\ UNCHANGED <<svc, exceptKeyVars>>

\* the caller computes the end of the range of its prefix
ApplyKeyAfterPrefix ==
  /\ keyq.pc = "chosen"
  /\ keyq' = [keyq EXCEPT !.pc = "done", !.end_key = key_after_prefix(keyq.prefix)]
  /\ UNCHANGED <<svc, exceptKeyVars>>

KeyNext ==
  \/ \E p \in ByteStrings(MaxPrefixLen), k \in ByteStrings(MaxKeyLen) : ChoosePrefix(p, k)
  \/ ApplyKeyAfterPrefix

KeySpec == Init /\ [][KeyNext]_vars

\* the key is in the half-open range [from, to)
InRange(key, from, to) == ~KeyLess(key, from) /\ KeyLess(key, to)

\* C40: for every byte string p the range [p, key_after_prefix(p)) contains
\* exactly the keys that have p as a prefix.
C40_RangeHoldsExactlyKeysUnderPrefix ==
  keyq.pc = "done" =>
    (InRange(keyq.key, keyq.prefix, keyq.end_key) <=> StartsWith(keyq.key, keyq.prefix))

\* for the prefix 01 ff the function returned 02 00, and the key 02, which
\* does not start with the prefix, is in the range
C40_RangeHoldsForeignKey ==
  /\ keyq.pc = "done"
  /\ keyq.prefix = <<1, 255>>
  /\ keyq.end_key = <<2, 0>>
  /\ keyq.key = <<2>>
  /\ InRange(keyq.key, keyq.prefix, keyq.end_key)

====
